---- MODULE Spec2Model ----
(***************************************************************************)
(* A model of the llmqa generation / evaluation / filtering pipeline:      *)
(*   - the generation worker  _process_chunk_worker  (qa_generator.py),     *)
(*     with the legacy judge CritiqueAgent (models/critique_agent.py);      *)
(*   - the structured judge  CritiqueEvaluator  (evaluators/critique.py);   *)
(*   - the orchestrator  QAGenerator.generate_from_file  (qa_generator.py); *)
(*   - the parsers of a model's response and of a judge's reply;            *)
(*   - the service  LLMService  (core/llm_service.py);                      *)
(*   - the registry  ModelRegistry  (models/model_registry.py).             *)
(* Each part has its own specification (JobSpec, JobLiveSpec with the job's *)
(* fairness, JobCancelSpec; EvalSpec; FileSpec, PoolSpec, RerunSpec;        *)
(* ParseSpec; CritiqueParseSpec; ServiceSpec; RegistrySpec); the variables  *)
(* of the parts a specification does not run stay idle.                     *)
(***************************************************************************)
EXTENDS Integers, Sequences, FiniteSets, TLC

(***************************************************************************)
(* Bounds of the model.                                                    *)
(***************************************************************************)
\* largest max_retries a generation job is started with
MaxRetries == 3
\* largest number of elements in one model response
MaxPairs == 2

(***************************************************************************)
(* Values.                                                                 *)
(***************************************************************************)
\* Python's None, as an aggregate_score
NoScore == [null |-> TRUE, num |-> 0, den |-> 1]

\* ratings a judge reply can carry
JudgeRatings == {1, 5}

\* what one judge call can do: raise (transport), reply unparsably, or reply
\* with a rating
JudgeReplies ==
    {[kind |-> "raise", rating |-> 0], [kind |-> "unparsable", rating |-> 0]}
        \cup {[kind |-> "rating", rating |-> r] : r \in JudgeRatings}

Range(s) == {s[i] : i \in DOMAIN s}

Min(S) == CHOOSE x \in S : \A y \in S : x <= y

RECURSIVE SumOver(_, _)
SumOver(f, S) ==
    IF S = {} THEN 0
    ELSE LET x == CHOOSE y \in S : TRUE IN f[x] + SumOver(f, S \ {x})

(***************************************************************************)
(* CritiqueAgent (the legacy three-criterion judge).                        *)
(***************************************************************************)
all_criteria == <<"groundedness", "relevance", "standalone">>

\* the criteria argument: None, or a list of names
NoCriteria == [none |-> TRUE, list |-> <<>>]
CriteriaList(s) == [none |-> FALSE, list |-> s]

\* criteria = criteria or all_criteria
EffectiveCriteria(criteria) ==
    IF criteria.none \/ criteria.list = <<>> THEN all_criteria ELSE criteria.list

\* a bug that validates the first requested name only
InvalidCriteriaFirstOnly(names) ==
    IF names[1] \notin Range(all_criteria) THEN <<names[1]>> ELSE <<>>

\* invalid_criteria = [c for c in criteria if c not in all_criteria]
InvalidCriteria(names) == SelectSeq(names, LAMBDA c : c \notin Range(all_criteria))

\* the judge calls evaluate_qa_pair makes, in its fixed order
AskedCriteria(names) == SelectSeq(all_criteria, LAMBDA c : c \in Range(names))

\* a bug that divides by the number of known criteria
AggregateScoreOverAll(critiques) ==
    IF DOMAIN critiques = {} THEN NoScore
    ELSE [null |-> FALSE,
          num |-> SumOver(critiques, DOMAIN critiques),
          den |-> Len(all_criteria)]

\* sum(ratings) / len(ratings) if ratings else None, as an exact fraction
AggregateScore(critiques) ==
    IF DOMAIN critiques = {} THEN NoScore
    ELSE [null |-> FALSE,
          num |-> SumOver(critiques, DOMAIN critiques),
          den |-> Cardinality(DOMAIN critiques)]

\* the criteria evaluate_qa_pair puts to the judge (none when a name is invalid)
JudgedCriteria(criteria) ==
    LET names == EffectiveCriteria(criteria) IN
    IF InvalidCriteria(names) # <<>> THEN {} ELSE Range(AskedCriteria(names))

\* CritiqueAgent.evaluate_qa_pair: replies[c] is what the judge does when
\* asked about criterion c.  evaluate_groundedness / _relevance / _standalone
\* let the judge's exception and _parse_critique's ValueError propagate.
AgentEvaluateQAPair(criteria, replies) ==
    LET names == EffectiveCriteria(criteria) IN
    IF InvalidCriteria(names) # <<>>
    THEN [raised |-> TRUE, err |-> "invalid_criteria", judge_calls |-> 0,
          critiques |-> <<>>, aggregate_score |-> NoScore]
    ELSE LET asked == AskedCriteria(names)
             failing == {i \in 1..Len(asked) : replies[asked[i]].kind # "rating"}
         IN IF failing # {}
            THEN [raised |-> TRUE,
                  err |-> IF replies[asked[Min(failing)]].kind = "raise"
                          THEN "judge_call" ELSE "judge_parse",
                  judge_calls |-> Min(failing),
                  critiques |-> <<>>, aggregate_score |-> NoScore]
            ELSE LET critiques == [c \in Range(asked) |-> replies[c].rating]
                 IN [raised |-> FALSE, err |-> "none", judge_calls |-> Len(asked),
                     critiques |-> critiques,
                     aggregate_score |-> AggregateScore(critiques)]

(***************************************************************************)
(* The generation worker, _process_chunk_worker.                            *)
(***************************************************************************)
VARIABLES
    jpc,              \* where the job is: CALLED (generate_from_chunk has
                      \* been called), REJECTED (it has raised for its
                      \* argument), PENDING, CALLING_MODEL, PARSING,
                      \* PAIRS (the loop over qa_pairs), DONE, FAILED, IDLE
    chunk_arg,        \* the chunk argument of generate_from_chunk: nonstring,
                      \* empty, whitespace or text
    job_error,        \* the exception generate_from_chunk raised for it
    model_instances,  \* number of models constructed so far
    cancel_signal,    \* the caller has asked for the job to be cancelled
    max_retries,      \* argument
    critique_class,   \* argument: TRUE when a critique class is given
    criteria,         \* argument
    min_score,        \* argument
    attempt,          \* the loop variable of  for attempt in range(max_retries)
    chunk,            \* the prompt: the original chunk, and the error texts
                      \* line 89 has put in front of it
    response,         \* the model's response of this attempt
    qa_pairs,         \* the parsed response
    idx,              \* position of the loop over qa_pairs
    processed_pairs,  \* the list the job returns
    parsed_pairs,     \* every pair this attempt has built, kept or not
    result,           \* what the job returned or raised
    gen_calls,        \* number of calls model(chunk) so far
    log               \* how each finished attempt ended

jobVars == <<jpc, chunk_arg, job_error, model_instances, cancel_signal, max_retries, critique_class, criteria, min_score, attempt, chunk,
             response, qa_pairs, idx, processed_pairs, parsed_pairs, result,
             gen_calls, log>>

\* One call of a judge: CritiqueEvaluator.evaluate_qa_pair,
\* CritiqueEvaluator.evaluate_generated_answer or CritiqueAgent.evaluate_qa_pair.
VARIABLES
    epc,              \* RUNNING, RETURNED, RAISED, IDLE
    ev_fn,            \* the method called
    ev_criteria,      \* its criteria argument
    ev_list,          \* the criteria the method's loop goes through
    ev_pos,           \* position of the loop over the criteria
    ev_attempt,       \* the loop variable of  for attempt in range(max_retries)
    critiques,        \* the dict critiques: criterion name -> critique
    ev_result,        \* what the method returned
    ev_hist,          \* per criterion of ev_list, how each of its attempts ended
    judge_calls,      \* the calls of the judge model, in order: the criterion
                      \* asked about and the rating of the reply (0 when the
                      \* call raised or its reply did not parse)
    ev_error          \* the exception the method raised

evalVars == <<epc, ev_fn, ev_criteria, ev_list, ev_pos, ev_attempt, critiques,
              ev_result, ev_hist, judge_calls, ev_error>>

\* One run of QAGenerator.generate_from_file.
VARIABLES
    fpc,              \* where the run is: VALIDATE, LOAD, BATCH (the head of the
                      \* loop over the batches), SUBMITTED (the jobs of the
                      \* batch are submitted), COLLECT (the loop over
                      \* as_completed), WRITING (the output file is open for
                      \* writing), DONE, RAISED, IDLE
    input_kind,       \* the input file: missing, empty, nocolumn, ok
    append,           \* argument
    verbose,          \* argument
    critique_agent,   \* self.critique_agent is set
    n_chunks,         \* len(chunks)
    batch_size,       \* argument
    batch_start,      \* the loop variable of the loop over the batches
    out_file,         \* the output file
    out_before,       \* the output file as it was when the run began
    all_qa_pairs,     \* the list all_qa_pairs
    total_generated,  \* the counter total_generated
    total_filtered,   \* the counter total_filtered
    future_to_chunk,  \* chunk -> the future of its job, and the job's result
    errors,           \* the lines "Error processing chunk ..." printed
    run_error,        \* the exception the run raised
    completion_order, \* the chunks, in the order in which their jobs finished
    as_completed_order, \* the chunks, in the order in which as_completed
                      \* yields their futures
    handled,          \* how many of them the loop has taken
    last_saved,       \* the output file as it was before the last open for
                      \* writing
    out_dir,          \* the directory of the output file exists
    summary,          \* the summary lines 279-281 have printed
    excluded,         \* chunk -> the number of pairs its job parsed and its
                      \* filter left out of the list it returned
    num_workers,      \* self.num_workers, the max_workers of each batch's pool
    taken,            \* the chunks whose job a worker process of the pool
                      \* has taken from the pool's queue
    run               \* how many times generate_from_file has been called
                      \* on this input and output

fileVars == <<fpc, input_kind, append, verbose, critique_agent, n_chunks, batch_size,
              batch_start, out_file, out_before, all_qa_pairs, total_generated,
              total_filtered, future_to_chunk, errors, run_error, completion_order,
              as_completed_order, handled, last_saved, out_dir, summary, excluded,
              num_workers, taken, run>>

\* One parsing of a generation model's response, by the worker (lines 47-56
\* of qa_generator.py) or by LLMService.generate_qa (lines 77-90 of
\* llm_service.py).
VARIABLES
    ppc,              \* INPUT, PARSED, IDLE
    parser,           \* worker or service
    parse_input,      \* the response text
    parse_output      \* the list of pairs the parser gives, or that it raised

parseVars == <<ppc, parser, parse_input, parse_output>>

\* One call of LLMService.generate_qa or of
\* LLMService.generate_and_evaluate_answer (llm_service.py).
VARIABLES
    svc_pc,           \* CALLED, GENERATED, RETURNED, RAISED, IDLE
    svc_method,       \* generate_qa or generate_and_evaluate_answer
    svc_evaluator,    \* self.evaluator is set
    svc_with_critique,  \* the with_critique argument of generate_qa
    svc_criteria,     \* the criteria argument: none, empty, list, or
                      \* malformed (a list with an element that is no dict)
    svc_response,     \* what self.model(prompt) gave: raises, unparsable,
                      \* dict, nondict or text
    svc_model_calls,  \* the calls of self.model
    svc_eval_calls,   \* the calls of a method of self.evaluator
    svc_evaluation,   \* what the evaluator's method returned or raised
    svc_result        \* what the call returned or raised

serviceVars == <<svc_pc, svc_method, svc_evaluator, svc_with_critique, svc_criteria,
                 svc_response, svc_model_calls, svc_eval_calls, svc_evaluation,
                 svc_result>>

\* One ModelRegistry and its configuration file (model_registry.py).
VARIABLES
    rpc,                  \* READY, IDLE
    models,               \* self.models: model id -> its "enabled" flag
    saved_config,         \* the models of the configuration file
    cached_changes,       \* self._cached_changes: model id -> enabled
    has_pending_changes,  \* self._has_pending_changes
    last_call,            \* the last method called, its arguments and what
                          \* it returned
    before                \* models, saved_config and cached_changes as they
                          \* were when the last method was called

registryVars == <<rpc, models, saved_config, cached_changes, has_pending_changes,
                  last_call, before>>

vars == <<jobVars, evalVars, fileVars, parseVars, serviceVars, registryVars>>

\* the variables of the parts that are not running
EvalIdle ==
    /\ epc = "IDLE"
    /\ ev_fn = "none"
    /\ ev_criteria = NoCriteria
    /\ ev_list = <<>>
    /\ ev_pos = 0
    /\ ev_attempt = 0
    /\ critiques = <<>>
    /\ ev_result = [critiques |-> <<>>, aggregate_score |-> NoScore]
    /\ ev_hist = <<>>
    /\ judge_calls = <<>>
    /\ ev_error = "none"

JobIdle ==
    /\ jpc = "IDLE"
    /\ chunk_arg = "none"
    /\ job_error = "none"
    /\ model_instances = 0
    /\ cancel_signal = FALSE
    /\ max_retries = 0
    /\ critique_class = FALSE
    /\ criteria = NoCriteria
    /\ min_score = 0
    /\ attempt = 0
    /\ chunk = <<>>
    /\ response = [kind |-> "none", items |-> <<>>, json_ok |-> TRUE]
    /\ qa_pairs = <<>>
    /\ idx = 0
    /\ processed_pairs = <<>>
    /\ parsed_pairs = <<>>
    /\ result = [raised |-> FALSE, none |-> FALSE, pairs |-> <<"running">>]
    /\ gen_calls = 0
    /\ log = <<>>

\* no output file
NoFile == [exists |-> FALSE, valid |-> FALSE, recs |-> <<>>]

\* nothing printed by lines 279-281
NoSummary == [printed |-> FALSE, generated |-> 0, filtered |-> 0]

FileIdle ==
    /\ fpc = "IDLE"
    /\ input_kind = "none"
    /\ append = FALSE
    /\ verbose = FALSE
    /\ critique_agent = FALSE
    /\ n_chunks = 0
    /\ batch_size = 0
    /\ batch_start = 0
    /\ out_file = NoFile
    /\ out_before = NoFile
    /\ all_qa_pairs = <<>>
    /\ total_generated = 0
    /\ total_filtered = 0
    /\ future_to_chunk = <<>>
    /\ errors = <<>>
    /\ run_error = "none"
    /\ completion_order = <<>>
    /\ as_completed_order = <<>>
    /\ handled = 0
    /\ last_saved = NoFile
    /\ out_dir = FALSE
    /\ summary = NoSummary
    /\ excluded = <<>>
    /\ num_workers = 0
    /\ taken = {}
    /\ run = 0

\* a parser that has not returned
NoOutput == [raised |-> FALSE, list |-> <<>>]

ParseIdle ==
    /\ ppc = "IDLE"
    /\ parser = "none"
    /\ parse_input = [form |-> "none", shape |-> "none", items |-> <<>>]
    /\ parse_output = NoOutput

\* a call of the service that has not ended
NoServiceResult ==
    [ended |-> FALSE, error |-> "none", pairs |-> <<>>, critiques |-> <<>>,
     aggregate_score |-> NoScore]

\* the evaluator has not been called
NoEvaluation == [called |-> FALSE, raised |-> FALSE, critiques |-> <<>>,
                 aggregate_score |-> NoScore]

ServiceIdle ==
    /\ svc_pc = "IDLE"
    /\ svc_method = "none"
    /\ svc_evaluator = FALSE
    /\ svc_with_critique = FALSE
    /\ svc_criteria = "none"
    /\ svc_response = "none"
    /\ svc_model_calls = 0
    /\ svc_eval_calls = 0
    /\ svc_evaluation = NoEvaluation
    /\ svc_result = NoServiceResult

\* a dict with no key
EmptyMap == [m \in {} |-> FALSE]

\* no configuration file
NoConfig == [exists |-> FALSE, models |-> EmptyMap]

\* no method of the registry has been called
NoCall == [op |-> "none", model_id |-> "none", enabled |-> FALSE, cache_only |-> FALSE,
           ret |-> "None"]

RegistryIdle ==
    /\ rpc = "IDLE"
    /\ models = EmptyMap
    /\ saved_config = NoConfig
    /\ cached_changes = EmptyMap
    /\ has_pending_changes = FALSE
    /\ last_call = NoCall
    /\ before = [models |-> EmptyMap, saved_config |-> NoConfig,
                 cached_changes |-> EmptyMap]

notJob == <<evalVars, fileVars, parseVars, serviceVars, registryVars>>
notEval == <<jobVars, fileVars, parseVars, serviceVars, registryVars>>
notFile == <<jobVars, evalVars, parseVars, serviceVars, registryVars>>
notParse == <<jobVars, evalVars, fileVars, serviceVars, registryVars>>
notService == <<jobVars, evalVars, fileVars, parseVars, registryVars>>
notRegistry == <<jobVars, evalVars, fileVars, parseVars, serviceVars>>

\* the text chunk the job is given
TheChunk == <<"chunk">>

\* the text of the exception caught in attempt a (0-based), as line 89 embeds it
ErrorText(a) == <<"error", a>>

\* the elements a model response can hold: something that is no dict, a dict
\* without 'question' or 'answer', and a dict with both
ItemKinds == {"nodict", "nokey", "pair"}

RECURSIVE SeqsUpTo(_, _)
SeqsUpTo(S, n) ==
    IF n = 0 THEN {<<>>}
    ELSE LET shorter == SeqsUpTo(S, n - 1)
         IN shorter \cup {Append(s, x) : s \in {t \in shorter : Len(t) = n - 1}, x \in S}

\* what model(chunk) can return: text ast.literal_eval rejects, a literal that
\* is no list, or a list of elements.  json_ok tells whether json can write
\* the values of the list's dicts: ast.literal_eval also accepts sets, bytes,
\* complex numbers and Ellipsis, which json.dump refuses.
Responses ==
    {[kind |-> "garbage", items |-> <<>>, json_ok |-> TRUE],
     [kind |-> "notlist", items |-> <<>>, json_ok |-> TRUE]}
        \cup {[kind |-> "list", items |-> s, json_ok |-> b] :
                 s \in SeqsUpTo(ItemKinds, MaxPairs), b \in BOOLEAN}

NoResponse == [kind |-> "none", items |-> <<>>, json_ok |-> TRUE]

\* the response passes the worker's checks of lines 50-56
ResponseValid(r) == r.kind = "list" /\ \A i \in DOMAIN r.items : r.items[i] = "pair"

\* the argument tuples the job is started with
JobConfigs ==
    {[critique_class |-> FALSE, criteria |-> NoCriteria, min_score |-> 3],
     [critique_class |-> TRUE, criteria |-> NoCriteria, min_score |-> 3],
     [critique_class |-> TRUE, criteria |-> CriteriaList(<<>>), min_score |-> 5],
     [critique_class |-> TRUE, criteria |-> CriteriaList(<<"groundedness">>), min_score |-> 3],
     [critique_class |-> TRUE, criteria |-> CriteriaList(<<"relevance", "groundedness">>),
      min_score |-> 3],
     [critique_class |-> TRUE, criteria |-> CriteriaList(<<"groundedness", "bogus">>),
      min_score |-> 3]}

\* the exceptions the worker's except clause sees, by origin: the model call
\* ("transport"), parsing and validating the response ("parse"), a judge call
\* or the parsing of its reply ("judge"), the rest of the critique ("critique")
ErrClass(err) ==
    CASE err = "transport" -> "transport"
      [] err \in {"syntax", "notlist", "badpair"} -> "parse"
      [] err \in {"judge_call", "judge_parse"} -> "judge"
      [] OTHER -> "critique"

\* a bug that swallows the last error: the job ends without a value
SwallowedError == [raised |-> FALSE, none |-> TRUE, pairs |-> <<>>]

\* what the job raises when the retries are used up (lines 84-87)
Raised == [raised |-> TRUE, none |-> FALSE, pairs |-> <<>>]
Returned(pairs) == [raised |-> FALSE, none |-> FALSE, pairs |-> pairs]

\* a bug that returns an empty list when the loop has not run
ReturnedEmptyList == [raised |-> FALSE, none |-> FALSE, pairs |-> <<>>]

\* the loop of line 44 ends without a return: the function returns None
ReturnedNone == [raised |-> FALSE, none |-> TRUE, pairs |-> <<>>]
NoResult == [raised |-> FALSE, none |-> FALSE, pairs |-> <<"running">>]

\* the chunk arguments of generate_from_chunk
ChunkKinds == {"nonstring", "empty", "whitespace", "text"}

\* a bug that tests the chunk without stripping it
ChunkErrorNoStrip(kind) ==
    CASE kind = "nonstring" -> "TypeError"
      [] kind = "empty" -> "ValueError"
      [] OTHER -> "none"

\* lines 149-152: not isinstance(chunk, str) raises TypeError, then
\* not chunk.strip() raises ValueError
ChunkError(kind) ==
    CASE kind = "nonstring" -> "TypeError"
      [] kind \in {"empty", "whitespace"} -> "ValueError"
      [] OTHER -> "none"

JobInit ==
    /\ jpc = "CALLED"
    /\ chunk_arg \in ChunkKinds
    /\ job_error = "none"
    /\ model_instances = 0
    /\ cancel_signal = FALSE
    /\ max_retries \in -1..MaxRetries
    /\ \E c \in JobConfigs :
          /\ critique_class = c.critique_class
          /\ criteria = c.criteria
          /\ min_score = c.min_score
    /\ attempt = 0
    /\ chunk = TheChunk
    /\ response = NoResponse
    /\ qa_pairs = <<>>
    /\ idx = 0
    /\ processed_pairs = <<>>
    /\ parsed_pairs = <<>>
    /\ result = NoResult
    /\ gen_calls = 0
    /\ log = <<>>
    /\ EvalIdle
    /\ FileIdle
    /\ ParseIdle
    /\ ServiceIdle
    /\ RegistryIdle

\* the last attempt raises; an earlier one puts the error in front of the
\* chunk and goes round the loop again (lines 82-89)
IsLastAttempt == attempt = max_retries - 1

ExceptHandler(err) ==
    /\ log' = Append(log, [end |-> ErrClass(err), valid |-> ResponseValid(response)])
    \* the locals of the abandoned attempt are dead: each is bound again
    \* (lines 46, 47, 53, 54) before it is read
    /\ response' = NoResponse
    /\ qa_pairs' = <<>>
    /\ idx' = 0
    /\ processed_pairs' = <<>>
    /\ parsed_pairs' = <<>>
    /\ IF IsLastAttempt
       THEN /\ jpc' = "FAILED"
            /\ result' = Raised
            /\ UNCHANGED <<attempt, chunk>>
       ELSE /\ jpc' = "CALLING_MODEL"
            /\ chunk' = <<ErrorText(attempt)>> \o chunk
            /\ attempt' = attempt + 1
            /\ UNCHANGED result

\* lines 37-44: the models are built and the loop is entered; with
\* max_retries <= 0 its body never runs and the function falls off its end
\* generate_from_chunk, lines 149-161: the chunk is checked and handed to
\* _process_chunk_worker
GenerateFromChunk ==
    /\ jpc = "CALLED"
    /\ IF ChunkError(chunk_arg) = "none"
       THEN jpc' = "PENDING" /\ UNCHANGED job_error
       ELSE jpc' = "REJECTED" /\ job_error' = ChunkError(chunk_arg)
    /\ UNCHANGED <<chunk_arg, model_instances, cancel_signal, max_retries, critique_class, criteria,
                   min_score, attempt, chunk, response, qa_pairs, idx, processed_pairs,
                   parsed_pairs, result, gen_calls, log>>
    /\ UNCHANGED notJob

StartJob ==
    /\ jpc = "PENDING"
    \* lines 40-41: model = model_class(), critique_model = model_class()
    /\ model_instances' = model_instances + 2
    /\ IF max_retries <= 0
       THEN jpc' = "DONE" /\ result' = ReturnedNone
       ELSE jpc' = "CALLING_MODEL" /\ UNCHANGED result
    /\ UNCHANGED <<max_retries, critique_class, criteria, min_score, attempt, chunk,
                   response, qa_pairs, idx, processed_pairs, parsed_pairs, gen_calls, log>>
    /\ UNCHANGED <<chunk_arg, job_error, cancel_signal>>
    /\ UNCHANGED notJob

\* line 46: response = model(chunk), which returns
CallModel ==
    /\ jpc = "CALLING_MODEL"
    /\ gen_calls' = gen_calls + 1
    /\ \E r \in Responses : response' = r
    /\ jpc' = "PARSING"
    /\ UNCHANGED <<max_retries, critique_class, criteria, min_score, attempt, chunk,
                   qa_pairs, idx, processed_pairs, parsed_pairs, result, log>>
    /\ UNCHANGED <<chunk_arg, job_error, model_instances, cancel_signal>>
    /\ UNCHANGED notJob

\* line 46: model(chunk) raises; the except clause of line 82 catches it
CallModelRaises ==
    /\ jpc = "CALLING_MODEL"
    /\ gen_calls' = gen_calls + 1
    /\ ExceptHandler("transport")
    /\ UNCHANGED <<max_retries, critique_class, criteria, min_score>>
    /\ UNCHANGED <<chunk_arg, job_error, model_instances, cancel_signal>>
    /\ UNCHANGED notJob

\* lines 47-53: ast.literal_eval and the check that the value is a list
ParseResponse ==
    /\ jpc = "PARSING"
    /\ CASE response.kind = "garbage" ->
              ExceptHandler("syntax")
         [] response.kind = "notlist" ->
              ExceptHandler("notlist")
         [] OTHER ->
              /\ qa_pairs' = response.items
              /\ processed_pairs' = <<>>
              /\ parsed_pairs' = <<>>
              /\ idx' = 1
              /\ jpc' = "PAIRS"
              /\ UNCHANGED <<attempt, chunk, response, result, log>>
    /\ UNCHANGED <<max_retries, critique_class, criteria, min_score, gen_calls>>
    /\ UNCHANGED <<chunk_arg, job_error, model_instances, cancel_signal>>
    /\ UNCHANGED notJob

\* a bug that drops a pair whose score equals the minimum
MeetsMinScoreStrict(score, minimum) == score.num > minimum * score.den

\* line 75: only pairs that meet the minimum score are included
MeetsMinScore(score, minimum) == score.num >= minimum * score.den

\* lines 54-78: one round of the loop over qa_pairs
ProcessPair ==
    /\ jpc = "PAIRS"
    /\ idx <= Len(qa_pairs)
    /\ IF qa_pairs[idx] \in {"nodict", "nokey"}
       THEN ExceptHandler("badpair")
       ELSE IF critique_class
       THEN \E replies \in [JudgedCriteria(criteria) -> JudgeReplies] :
               LET critique_result == AgentEvaluateQAPair(criteria, replies)
                   processed_pair ==
                       [json_ok |-> response.json_ok, source_context |-> chunk,
                        critiqued |-> TRUE,
                        critiques |-> critique_result.critiques,
                        aggregate_score |-> critique_result.aggregate_score]
               IN IF critique_result.raised
                  THEN ExceptHandler(critique_result.err)
                  ELSE IF processed_pair.aggregate_score.null
                  THEN \* None >= min_score is a TypeError
                       ExceptHandler("compare")
                  ELSE /\ parsed_pairs' = Append(parsed_pairs, processed_pair)
                       /\ processed_pairs' =
                             IF MeetsMinScore(processed_pair.aggregate_score, min_score)
                             THEN Append(processed_pairs, processed_pair)
                             ELSE processed_pairs
                       /\ idx' = idx + 1
                       /\ UNCHANGED <<jpc, attempt, chunk, response, qa_pairs, result, log>>
       ELSE LET processed_pair ==
                    [json_ok |-> response.json_ok, source_context |-> chunk,
                     critiqued |-> FALSE, critiques |-> <<>>,
                     aggregate_score |-> NoScore]
            IN /\ parsed_pairs' = Append(parsed_pairs, processed_pair)
               /\ processed_pairs' = Append(processed_pairs, processed_pair)
               /\ idx' = idx + 1
               /\ UNCHANGED <<jpc, attempt, chunk, response, qa_pairs, result, log>>
    /\ UNCHANGED <<max_retries, critique_class, criteria, min_score, gen_calls>>
    /\ UNCHANGED <<chunk_arg, job_error, model_instances, cancel_signal>>
    /\ UNCHANGED notJob

\* line 80: return processed_pairs
ReturnPairs ==
    /\ jpc = "PAIRS"
    /\ idx > Len(qa_pairs)
    /\ jpc' = "DONE"
    /\ result' = Returned(processed_pairs)
    /\ log' = Append(log, [end |-> "ok", valid |-> TRUE])
    /\ UNCHANGED <<max_retries, critique_class, criteria, min_score, attempt, chunk,
                   response, qa_pairs, idx, processed_pairs, parsed_pairs, gen_calls>>
    /\ UNCHANGED <<chunk_arg, job_error, model_instances, cancel_signal>>
    /\ UNCHANGED notJob

JobNext ==
    \/ GenerateFromChunk
    \/ StartJob
    \/ CallModel
    \/ CallModelRaises
    \/ ParseResponse
    \/ ProcessPair
    \/ ReturnPairs

JobSpec == JobInit /\ [][JobNext]_vars

\* The job is sequential code in one process: as long as every call it makes
\* returns or raises, its next step is taken.
JobLiveSpec == JobSpec /\ WF_vars(JobNext)

\* The caller decides, while the job runs, that it is to be cancelled.  The
\* worker's arguments (line 37) hold no signal and its code reads none: the
\* decision changes nothing the job looks at.
SetCancel ==
    /\ jpc \in {"PENDING", "CALLING_MODEL", "PARSING", "PAIRS"}
    /\ ~cancel_signal
    /\ cancel_signal' = TRUE
    /\ UNCHANGED <<jpc, chunk_arg, job_error, model_instances, max_retries,
                   critique_class, criteria, min_score, attempt, chunk, response,
                   qa_pairs, idx, processed_pairs, parsed_pairs, result, gen_calls, log>>
    /\ UNCHANGED notJob

JobCancelNext ==
    \/ JobNext
    \/ SetCancel

\* the job, and a caller that may cancel it
JobCancelSpec == JobInit /\ [][JobCancelNext]_vars

(***************************************************************************)
(* Properties of the generation worker.                                     *)
(***************************************************************************)
\* C1: retry law.  A job started with max_retries >= 1 never calls the
\* generation model more than max_retries times; when the responses of
\* attempts 1..N-1 failed parsing or validation and the response of attempt N
\* is valid, the job returns the result of attempt N after exactly N calls;
\* when all max_retries responses failed parsing or validation, the job
\* raises after exactly max_retries calls.
C1_RetryLaw ==
    max_retries >= 1 =>
        /\ gen_calls <= max_retries
        /\ \A n \in DOMAIN log :
              ((\A k \in 1..(n - 1) : log[k].end = "parse") /\ log[n].valid)
                  => /\ log[n].end = "ok"
                     /\ jpc = "DONE"
                     /\ gen_calls = n
                     /\ result = Returned(processed_pairs)
        /\ (Len(log) = max_retries /\ \A k \in DOMAIN log : log[k].end = "parse")
              => (jpc = "FAILED" /\ result = Raised /\ gen_calls = max_retries)

\* The retry law as far as it holds: the same, for the runs in which no
\* critique raises.
RetryLawWithoutCritiqueFailure ==
    max_retries >= 1 =>
        /\ gen_calls <= max_retries
        /\ \A n \in DOMAIN log :
              ((\A k \in 1..(n - 1) : log[k].end = "parse") /\ log[n].valid
                  /\ log[n].end \notin {"judge", "critique"})
                  => /\ log[n].end = "ok"
                     /\ jpc = "DONE"
                     /\ gen_calls = n
                     /\ result = Returned(processed_pairs)
        /\ (Len(log) = max_retries /\ \A k \in DOMAIN log : log[k].end = "parse")
              => (jpc = "FAILED" /\ result = Raised /\ gen_calls = max_retries)

\* C2: filter law.  The pairs the job keeps, and returns, are exactly the
\* pairs it has parsed for which critique is disabled or the aggregate score
\* is at least min_score, in their order.
C2_FilterLaw ==
    LET kept(p) == \/ ~critique_class
                   \/ /\ ~p.aggregate_score.null
                      /\ p.aggregate_score.num >= min_score * p.aggregate_score.den
    IN /\ processed_pairs = SelectSeq(parsed_pairs, kept)
       /\ (jpc = "DONE" /\ ~result.none) => result.pairs = SelectSeq(parsed_pairs, kept)

\* C2, its case: a job with critique has returned, having kept a pair whose
\* score equals min_score and dropped another
C2_Witness ==
    /\ jpc = "DONE"
    /\ critique_class
    /\ Len(result.pairs) < Len(parsed_pairs)
    /\ \E i \in DOMAIN result.pairs :
          result.pairs[i].aggregate_score.num = min_score * result.pairs[i].aggregate_score.den

\* C3: a failing judge call, or a judge reply that does not parse, never ends
\* an attempt of the job: it neither makes the job fail nor sends it back to
\* the generation model.
C3_JudgeFailureNotFatal == \A n \in DOMAIN log : log[n].end # "judge"

\* C11: a failing call of the generation model ends the job at once: the
\* attempt in which it happens is the job's last, the job raises, and no call
\* of the model follows it.
C11_TransportErrorPropagates ==
    \A n \in DOMAIN log :
        log[n].end = "transport"
            => (n = Len(log) /\ jpc = "FAILED" /\ result = Raised /\ gen_calls = n)

\* C12: what a finished job hands back shows every pair it generated: a pair
\* the filter excluded is absent from the kept pairs and still present, with
\* its critiques and aggregate_score, in the result.
C12_ExcludedPairsStayVisible ==
    (jpc = "DONE" /\ ~result.none) =>
        /\ Range(processed_pairs) \subseteq Range(parsed_pairs)
        /\ Range(parsed_pairs) \subseteq Range(result.pairs)

\* C13: the prompt of the first attempt is the chunk; the prompt of every
\* later attempt is the error message of the attempt before it, once, in
\* front of the original chunk, and nothing else.
C13_ErrorContextPrompt ==
    jpc \in {"CALLING_MODEL", "PARSING", "PAIRS"} =>
        chunk = IF attempt = 0 THEN TheChunk ELSE <<ErrorText(attempt - 1)>> \o TheChunk

\* C14: every pair a job returns has as source_context the chunk the job was
\* given, whichever attempt succeeded.
C14_SourceContextIsChunk ==
    (jpc = "DONE" /\ ~result.none) =>
        \A i \in DOMAIN result.pairs : result.pairs[i].source_context = TheChunk

\* C20: the job's state machine.  Judge calls are made for the pairs of a
\* response only when the whole response has been parsed and validated; and
\* an attempt that is followed by another call of the generation model has
\* ended with a parse or validation failure.
C20_JobStateMachine ==
    /\ (jpc = "PAIRS" /\ critique_class /\ parsed_pairs # <<>>)
          => \A i \in DOMAIN qa_pairs : qa_pairs[i] = "pair"
    /\ \A n \in DOMAIN log :
          (n < Len(log) \/ jpc \notin {"DONE", "FAILED"}) => log[n].end = "parse"

\* The first half of C20 alone.
JudgeCallsOnlyAfterValidation ==
    (jpc = "PAIRS" /\ critique_class /\ parsed_pairs # <<>>)
        => \A i \in DOMAIN qa_pairs : qa_pairs[i] = "pair"

\* C21: a job with max_retries >= 1 eventually is DONE, having returned a
\* list of pairs, or FAILED, having raised; and once it is in one of these
\* states it stays as it is.
C21_JobTerminates ==
    /\ (jpc = "PENDING" /\ max_retries >= 1) ~>
          (\/ jpc = "DONE" /\ ~result.raised /\ ~result.none
           \/ jpc = "FAILED" /\ result.raised)
    /\ [][(jpc \in {"DONE", "FAILED"}) => (jpc' = jpc /\ result' = result)]_vars

\* C21, its case: a job has failed after three attempts, the last of which
\* had a response that could not be parsed
C21_Witness ==
    /\ jpc = "FAILED"
    /\ max_retries = 3
    /\ gen_calls = 3
    /\ result.raised
    /\ log[3].end = "parse"

\* C31: once the cancellation signal is set, the job's next step from a check
\* point (before the model call, before parsing, before the evaluation of a
\* pair's criteria) is the return of what it has accumulated: it does not
\* raise and makes no further model or judge call.
C31_CooperativeCancellation ==
    [][(cancel_signal /\ jpc \in {"CALLING_MODEL", "PARSING", "PAIRS"}) =>
          /\ jpc' = "DONE"
          /\ result' = Returned(processed_pairs)
          /\ gen_calls' = gen_calls
          /\ parsed_pairs' = parsed_pairs]_vars

C29_ChunkValidatedFirst ==
    (jpc # "CALLED" /\ chunk_arg # "text") =>
        /\ jpc = "REJECTED"
        /\ chunk_arg = "nonstring" => job_error = "TypeError"
        /\ chunk_arg \in {"empty", "whitespace"} => job_error = "ValueError"
        /\ model_instances = 0
        /\ gen_calls = 0

\* C29, its case: a whitespace-only chunk has been rejected
C29_Witness ==
    /\ jpc = "REJECTED"
    /\ chunk_arg = "whitespace"
    /\ job_error = "ValueError"

\* C16: a response that parses to the empty list is rejected: no attempt
\* gets past parsing with it, and no job returns on it.
C16_EmptyListRejected ==
    (jpc \in {"PAIRS", "DONE"} /\ response.kind = "list") => response.items # <<>>

(***************************************************************************)
(* The structured judge, CritiqueEvaluator, and one call of each judge.     *)
(***************************************************************************)
\* largest number of criteria in a criteria list
MaxCriteria == 2

\* max_retries = 3 of the evaluator's per-criterion loop
EvalMaxRetries == 3

\* a criterion configuration: its 'name' (which may be missing) and whether
\* prompt_template.format(**formatted_params) succeeds, which it does not when
\* the template names a placeholder that 'parameters' does not list
Criteria ==
    {[named |-> TRUE, name |-> n, renders |-> b] : n \in {"clarity", "accuracy"}, b \in BOOLEAN}
        \cup {[named |-> FALSE, name |-> "", renders |-> b] : b \in BOOLEAN}

\* criterion.get("name", "Unnamed Criterion")
CriterionName(criterion) == IF criterion.named THEN criterion.name ELSE "Unnamed Criterion"

\* the one built-in criterion of evaluate_generated_answer
DefaultCriterion ==
    [named |-> TRUE, name |-> "Generated Answer Correctness vs Ground Truth", renders |-> TRUE]

\* a bug that gives the sentinel a rating below the scale
SentinelCritiqueZero == [rating |-> 0, sentinel |-> TRUE]

\* the critique assigned when every attempt has failed
SentinelCritique == [rating |-> 1, sentinel |-> TRUE]
ParsedCritique(r) == [rating |-> r, sentinel |-> FALSE]

\* the ratings of a dict of critiques
Ratings(cs) == [n \in DOMAIN cs |-> cs[n].rating]

\* the criteria arguments of the three methods
EvaluatorInputs ==
    {[fn |-> f, criteria |-> c] :
        f \in {"evaluate_qa_pair", "evaluate_generated_answer"},
        c \in {CriteriaList(l) : l \in SeqsUpTo(Criteria, MaxCriteria)}}
    \cup {[fn |-> "evaluate_generated_answer", criteria |-> NoCriteria]}

AgentInputs ==
    {[fn |-> "CritiqueAgent.evaluate_qa_pair", criteria |-> c] :
        c \in {NoCriteria, CriteriaList(<<>>), CriteriaList(<<"groundedness">>),
               CriteriaList(<<"relevance", "groundedness">>),
               CriteriaList(<<"standalone", "bogus">>)}}

\* evaluate_generated_answer takes its default branch when criteria is None or empty
UsesDefaultCriterion(fn, c) ==
    fn = "evaluate_generated_answer" /\ (c.none \/ c.list = <<>>)

EvalInit ==
    /\ epc = "RUNNING"
    /\ \/ \E in \in EvaluatorInputs :
             /\ ev_fn = in.fn
             /\ ev_criteria = in.criteria
             /\ ev_list = IF UsesDefaultCriterion(in.fn, in.criteria)
                          THEN <<DefaultCriterion>>
                          ELSE in.criteria.list
       \/ \E in \in AgentInputs :
             /\ ev_fn = in.fn
             /\ ev_criteria = in.criteria
             /\ ev_list = <<>>
    /\ ev_hist = [i \in 1..Len(ev_list) |-> <<>>]
    /\ judge_calls = <<>>
    /\ ev_error = "none"
    /\ ev_pos = 1
    /\ ev_attempt = 0
    /\ critiques = <<>>
    /\ ev_result = [critiques |-> <<>>, aggregate_score |-> NoScore]
    /\ JobIdle
    /\ FileIdle
    /\ ParseIdle
    /\ ServiceIdle
    /\ RegistryIdle

\* one call of the judge model, self.model(prompt), as the run records it
JudgeCall(name, reply) ==
    [criterion |-> name, reply |-> IF reply.kind = "rating" THEN reply.rating ELSE 0]

\* critiques[name] = critique
SetCritique(cs, name, critique) ==
    [n \in DOMAIN cs \cup {name} |-> IF n = name THEN critique ELSE cs[n]]

\* a bug that never reaches the sentinel branch
IsLastEvalAttemptNever(a) == a = EvalMaxRetries

\* if attempt + 1 == max_retries: the sentinel is assigned
IsLastEvalAttempt(a) == a + 1 = EvalMaxRetries

\* a bug that goes round the loop once more
MoreAttemptsOneMore(a) == a < EvalMaxRetries

\* for attempt in range(max_retries): after attempt a there is another one
MoreAttempts(a) == a + 1 < EvalMaxRetries

\* one round of the loop  for attempt in range(max_retries)  for the criterion
\* at ev_pos: render the prompt, call the model, parse the reply
EvaluateAttempt ==
    /\ epc = "RUNNING"
    /\ ev_fn \in {"evaluate_qa_pair", "evaluate_generated_answer"}
    /\ ev_pos <= Len(ev_list)
    /\ LET criterion == ev_list[ev_pos]
           name == CriterionName(criterion)
       IN \E reply \in IF criterion.renders THEN JudgeReplies
                       ELSE {[kind |-> "render", rating |-> 0]} :
             /\ IF reply.kind = "rating"
                THEN \* the reply parses: it is recorded, and break leaves the loop
                     /\ critiques' = SetCritique(critiques, name, ParsedCritique(reply.rating))
                     /\ ev_hist' = [ev_hist EXCEPT ![ev_pos] = Append(@, reply.rating)]
                     /\ ev_pos' = ev_pos + 1
                     /\ ev_attempt' = 0
                ELSE \* the except clause
                     /\ critiques' = IF IsLastEvalAttempt(ev_attempt)
                                     THEN SetCritique(critiques, name, SentinelCritique)
                                     ELSE critiques
                     /\ ev_hist' = [ev_hist EXCEPT ![ev_pos] = Append(@, 0)]
                     /\ IF MoreAttempts(ev_attempt)
                        THEN ev_attempt' = ev_attempt + 1 /\ UNCHANGED ev_pos
                        ELSE ev_attempt' = 0 /\ ev_pos' = ev_pos + 1
             \* self.model(prompt) is reached when the prompt has been rendered
             /\ judge_calls' = IF reply.kind = "render" THEN judge_calls
                               ELSE Append(judge_calls, JudgeCall(name, reply))
    /\ UNCHANGED <<epc, ev_fn, ev_criteria, ev_list, ev_result, ev_error>>
    /\ UNCHANGED notEval

\* the end of the method: the aggregate score and the return
EvaluatorReturn ==
    /\ epc = "RUNNING"
    /\ ev_fn \in {"evaluate_qa_pair", "evaluate_generated_answer"}
    /\ ev_pos > Len(ev_list)
    /\ epc' = "RETURNED"
    /\ ev_result' =
          [critiques |-> critiques,
           aggregate_score |->
               IF UsesDefaultCriterion(ev_fn, ev_criteria)
               THEN \* critique_result.get("rating")
                    IF CriterionName(DefaultCriterion) \in DOMAIN critiques
                    THEN [null |-> FALSE,
                          num |-> critiques[CriterionName(DefaultCriterion)].rating,
                          den |-> 1]
                    ELSE NoScore
               ELSE AggregateScore(Ratings(critiques))]
    /\ UNCHANGED <<ev_fn, ev_criteria, ev_list, ev_pos, ev_attempt, critiques, ev_hist,
                   judge_calls, ev_error>>
    /\ UNCHANGED notEval

\* one call of CritiqueAgent.evaluate_qa_pair
AgentEvaluate ==
    /\ epc = "RUNNING"
    /\ ev_fn = "CritiqueAgent.evaluate_qa_pair"
    /\ \E replies \in [JudgedCriteria(ev_criteria) -> JudgeReplies] :
          LET r == AgentEvaluateQAPair(ev_criteria, replies)
              asked == AskedCriteria(EffectiveCriteria(ev_criteria))
          IN /\ IF r.raised
                THEN epc' = "RAISED" /\ UNCHANGED <<critiques, ev_result>>
                ELSE /\ epc' = "RETURNED"
                     /\ critiques' = [n \in DOMAIN r.critiques |-> ParsedCritique(r.critiques[n])]
                     /\ ev_result' = [critiques |-> critiques',
                                      aggregate_score |-> r.aggregate_score]
             /\ judge_calls' = [i \in 1..r.judge_calls |-> JudgeCall(asked[i], replies[asked[i]])]
             /\ ev_error' = r.err
    /\ UNCHANGED <<ev_fn, ev_criteria, ev_list, ev_pos, ev_attempt, ev_hist>>
    /\ UNCHANGED notEval

EvalNext ==
    \/ EvaluateAttempt
    \/ EvaluatorReturn
    \/ AgentEvaluate

EvalSpec == EvalInit /\ [][EvalNext]_vars

(***************************************************************************)
(* Properties of the judges.                                                *)
(***************************************************************************)
IsEvaluator == ev_fn \in {"evaluate_qa_pair", "evaluate_generated_answer"}

DistinctNames ==
    \A i, j \in DOMAIN ev_list :
        i # j => CriterionName(ev_list[i]) # CriterionName(ev_list[j])

\* the last element of a non-empty sequence
Last(s) == s[Len(s)]

\* C4, as stated: each criterion is attempted at most 3 times, its attempts
\* stop at the first one whose reply parses, and the critique recorded under
\* the criterion's name is, from then on, the parsed reply of that attempt.
C4_FirstSuccessKept_AnyNames ==
    IsEvaluator =>
        \A i \in DOMAIN ev_hist :
            /\ Len(ev_hist[i]) <= 3
            /\ \A k \in 1..(Len(ev_hist[i]) - 1) : ev_hist[i][k] = 0
            /\ (ev_hist[i] # <<>> /\ Last(ev_hist[i]) # 0)
                  => /\ CriterionName(ev_list[i]) \in DOMAIN critiques
                     /\ critiques[CriterionName(ev_list[i])] = ParsedCritique(Last(ev_hist[i]))

\* C4, amended: the same for a criteria list whose names are pairwise
\* distinct (two criteria of one name share one entry of the dict, and the
\* later one replaces the critique of the earlier).
C4_FirstSuccessKept ==
    (IsEvaluator /\ DistinctNames) =>
        \A i \in DOMAIN ev_hist :
            /\ Len(ev_hist[i]) <= 3
            /\ \A k \in 1..(Len(ev_hist[i]) - 1) : ev_hist[i][k] = 0
            /\ (ev_hist[i] # <<>> /\ Last(ev_hist[i]) # 0)
                  => /\ CriterionName(ev_list[i]) \in DOMAIN critiques
                     /\ critiques[CriterionName(ev_list[i])] = ParsedCritique(Last(ev_hist[i]))

\* C4, its case: the method has returned; its first criterion succeeded at its
\* third attempt and a second criterion, of another name, was evaluated after it
C4_Witness ==
    /\ epc = "RETURNED"
    /\ IsEvaluator
    /\ DistinctNames
    /\ Len(ev_list) >= 2
    /\ Len(ev_hist[1]) = 3
    /\ Last(ev_hist[1]) # 0
    /\ ev_hist[2] = <<0, 0, 0>>

\* C5: for a criteria list with pairwise distinct names evaluate_qa_pair does
\* not raise; it returns exactly one critique per criterion; a criterion
\* whose 3 attempts all failed has the sentinel critique, of rating 1; and
\* every criterion was attempted until it succeeded or had failed 3 times,
\* whatever became of the others.
C5_OneCritiquePerCriterion ==
    (ev_fn = "evaluate_qa_pair" /\ DistinctNames) =>
        /\ epc # "RAISED"
        /\ epc = "RETURNED" =>
              /\ DOMAIN ev_result.critiques = {CriterionName(ev_list[i]) : i \in DOMAIN ev_list}
              /\ Cardinality(DOMAIN ev_result.critiques) = Len(ev_list)
              /\ \A i \in DOMAIN ev_list :
                    LET c == ev_result.critiques[CriterionName(ev_list[i])]
                    IN /\ ev_hist[i] # <<>>
                       /\ Last(ev_hist[i]) # 0 \/ ev_hist[i] = <<0, 0, 0>>
                       /\ ev_hist[i] = <<0, 0, 0>> => (c.sentinel /\ c.rating = 1)
                       /\ Last(ev_hist[i]) # 0 => (~c.sentinel /\ c.rating = Last(ev_hist[i]))

\* C5, its case: evaluate_qa_pair has returned; the first of two criteria
\* failed 3 times and the second was still given its 3 attempts
C5_Witness ==
    /\ epc = "RETURNED"
    /\ ev_fn = "evaluate_qa_pair"
    /\ DistinctNames
    /\ Len(ev_list) = 2
    /\ ev_hist[1] = <<0, 0, 0>>
    /\ Len(ev_hist[2]) = 3
    /\ Last(ev_hist[2]) = 5

\* the mean law: a returned aggregate_score is the mean of the ratings of the
\* returned critiques, a single rating is returned as it is, and there is no
\* score exactly when there is no rating
MeanLaw ==
    LET cs == ev_result.critiques
        score == ev_result.aggregate_score
    IN /\ DOMAIN cs = {} <=> score.null
       /\ DOMAIN cs # {} =>
             /\ score.den > 0
             /\ score.num * Cardinality(DOMAIN cs) = SumOver(Ratings(cs), DOMAIN cs) * score.den
       /\ \A n \in DOMAIN cs :
             DOMAIN cs = {n} => score.num = cs[n].rating * score.den

EmptyCriteriaList == ~ev_criteria.none /\ ev_criteria.list = <<>>

C24_UndeclaredPlaceholderStillEvaluated ==
    (IsEvaluator /\ epc = "RETURNED") =>
        \A i \in DOMAIN ev_list :
            ~ev_list[i].renders =>
                \E k \in DOMAIN judge_calls :
                    judge_calls[k].criterion = CriterionName(ev_list[i])

\* C26: evaluate_generated_answer without a criteria list returns exactly one
\* critique, that of its built-in criterion, and an aggregate_score equal to
\* that critique's rating, which is 1 when all three attempts have failed.
C26_DefaultCriterion ==
    (epc = "RETURNED" /\ UsesDefaultCriterion(ev_fn, ev_criteria)) =>
        /\ DOMAIN ev_result.critiques = {"Generated Answer Correctness vs Ground Truth"}
        /\ \A n \in DOMAIN ev_result.critiques :
              ev_result.aggregate_score =
                  [null |-> FALSE, num |-> ev_result.critiques[n].rating, den |-> 1]
        /\ ev_hist[1] = <<0, 0, 0>> =>
              ev_result.aggregate_score = [null |-> FALSE, num |-> 1, den |-> 1]

\* C26, its case: called with criteria = None, all three attempts fail
C26_Witness ==
    /\ epc = "RETURNED"
    /\ ev_fn = "evaluate_generated_answer"
    /\ ev_criteria.none
    /\ ev_hist[1] = <<0, 0, 0>>
    /\ Len(judge_calls) = 3

\* The structured evaluator's loops (critique.py, lines 90-129) run against a
\* given sequence of judge outcomes, for criteria of the given names whose
\* prompts render: call k is answered by tape[k].  complete is FALSE when the
\* evaluator would call the judge once more than the tape is long.
RECURSIVE EvaluatorOnTape(_, _, _, _, _, _)
EvaluatorOnTape(names, pos, att, tape, calls, cs) ==
    IF pos > Len(names)
    THEN [complete |-> TRUE, judge_calls |-> calls, critiques |-> cs,
          aggregate_score |-> AggregateScore(cs)]
    ELSE IF Len(calls) >= Len(tape)
    THEN [complete |-> FALSE, judge_calls |-> calls, critiques |-> cs,
          aggregate_score |-> AggregateScore(cs)]
    ELSE LET rating == tape[Len(calls) + 1].reply
             calls2 == Append(calls, [criterion |-> names[pos], reply |-> rating])
         IN IF rating # 0
            THEN EvaluatorOnTape(names, pos + 1, 0, tape, calls2,
                                 SetCritique(cs, names[pos], rating))
            ELSE LET cs2 == IF IsLastEvalAttempt(att)
                            THEN SetCritique(cs, names[pos], SentinelCritique.rating)
                            ELSE cs
                 IN IF MoreAttempts(att)
                    THEN EvaluatorOnTape(names, pos, att + 1, tape, calls2, cs2)
                    ELSE EvaluatorOnTape(names, pos + 1, 0, tape, calls2, cs2)

\* EvaluatorOnTape is the evaluator of EvalSpec: a returned evaluate_qa_pair
\* whose prompts all rendered is what EvaluatorOnTape gives for its judge calls
EvaluatorOnTapeAgrees ==
    (ev_fn = "evaluate_qa_pair" /\ epc = "RETURNED"
        /\ \A i \in DOMAIN ev_list : ev_list[i].renders) =>
        LET names == [i \in DOMAIN ev_list |-> CriterionName(ev_list[i])]
            s == EvaluatorOnTape(names, 1, 0, judge_calls, <<>>, <<>>)
        IN /\ s.complete
           /\ s.judge_calls = judge_calls
           /\ s.critiques = Ratings(ev_result.critiques)
           /\ s.aggregate_score = ev_result.aggregate_score

\* C27: the legacy judge and the structured evaluator, asked for the same
\* criteria and given the same sequence of judge successes and failures, make
\* the same judge calls and return the same ratings and aggregate_score.
C27_LegacyEquivalentToStructured ==
    (/\ ev_fn = "CritiqueAgent.evaluate_qa_pair"
     /\ epc \in {"RETURNED", "RAISED"}
     /\ ev_error # "invalid_criteria") =>
        LET names == IF ev_criteria.none THEN all_criteria ELSE ev_criteria.list
            s == EvaluatorOnTape(names, 1, 0, judge_calls, <<>>, <<>>)
        IN /\ epc = "RETURNED"
           /\ s.complete
           /\ s.judge_calls = judge_calls
           /\ s.critiques = Ratings(ev_result.critiques)
           /\ s.aggregate_score = ev_result.aggregate_score

\* C27 without the failures: when every judge call succeeds and the criteria
\* are requested by name, in the legacy judge's own order, the two agree
LegacyEquivalentOnSuccess ==
    (/\ ev_fn = "CritiqueAgent.evaluate_qa_pair"
     /\ epc = "RETURNED"
     /\ ~ev_criteria.none
     /\ ev_criteria.list # <<>>
     /\ ev_criteria.list = AskedCriteria(ev_criteria.list)) =>
        LET s == EvaluatorOnTape(ev_criteria.list, 1, 0, judge_calls, <<>>, <<>>)
        IN /\ s.complete
           /\ s.judge_calls = judge_calls
           /\ s.critiques = Ratings(ev_result.critiques)
           /\ s.aggregate_score = ev_result.aggregate_score

\* C28: CritiqueAgent.evaluate_qa_pair raises ValueError for its invalid
\* criteria when a requested name is not one of the three, also when other
\* requested names are valid, and it has not called the judge.
C28_InvalidCriteriaRejectedFirst ==
    (/\ ev_fn = "CritiqueAgent.evaluate_qa_pair"
     /\ epc # "RUNNING"
     /\ ~ev_criteria.none
     /\ \E i \in DOMAIN ev_criteria.list :
           ev_criteria.list[i] \notin {"groundedness", "relevance", "standalone"}) =>
        /\ epc = "RAISED"
        /\ ev_error = "invalid_criteria"
        /\ judge_calls = <<>>

\* C28, its case: a valid name is requested before an invalid one
C28_Witness ==
    /\ ev_fn = "CritiqueAgent.evaluate_qa_pair"
    /\ epc = "RAISED"
    /\ ev_criteria = CriteriaList(<<"standalone", "bogus">>)
    /\ ev_error = "invalid_criteria"

(***************************************************************************)
(* QAGenerator.generate_from_file.                                          *)
(***************************************************************************)
MaxChunks == 2
MaxBatchSize == 2
MaxExisting == 1
MaxJobPairs == 1
MaxWorkers == 2
MaxPoolChunks == 4

\* QAGenerator.__init__: min_critique_score: float = 3.0
DefaultMinCritiqueScore == 3

\* the max_retries generate_from_file gives to every job
FileMaxRetries == 3

IsPrefix(s, t) == Len(s) <= Len(t) /\ SubSeq(t, 1, Len(s)) = s

\* A record of the output: the k-th pair of the result of a chunk's job
\* (chunk 0: a record the output file had before the run).  json_ok says
\* whether json.dump can write it: ast.literal_eval also yields sets, bytes
\* and complex numbers, and the job's validation does not look at the values.
PairOf(c, k, ok, score) ==
    [chunk |-> c, k |-> k, json_ok |-> ok, aggregate_score |-> score]

\* the scores of the pairs a job returns: every one of them has passed the
\* job's filter
WorkerScores(with_critique) ==
    IF with_critique
    THEN {s \in {[null |-> FALSE, num |-> r, den |-> 1] : r \in JudgeRatings} :
              MeetsMinScore(s, DefaultMinCritiqueScore)}
    ELSE {NoScore}

\* what the job of chunk c can end with; it never returns None, its
\* max_retries being 3.  The values of a response's pairs are of one kind:
\* json.dump can write all of them or none
WorkerResults(c, with_critique) ==
    IF FileMaxRetries <= 0 THEN {ReturnedNone}
    ELSE {Raised} \cup
         {Returned([k \in 1..n |-> PairOf(c, k, ok, score)]) :
              n \in 0..MaxJobPairs,
              ok \in BOOLEAN,
              score \in WorkerScores(with_critique)}

\* how many of the pairs a job parsed its filter (lines 75-76) can have left
\* out of the list it returned: none without a critique agent
ExcludedCounts(r, with_critique) ==
    IF with_critique /\ ~r.raised /\ ~r.none THEN {0, 1} ELSE {0}

\* a future that has no result yet
Pending == [raised |-> FALSE, none |-> FALSE, pairs |-> <<>>]

\* the output files a run can find
ExistingFiles ==
    {NoFile, [exists |-> TRUE, valid |-> FALSE, recs |-> <<>>]} \cup
    {[exists |-> TRUE, valid |-> TRUE,
      recs |-> [k \in 1..n |-> PairOf(0, k, TRUE, NoScore)]] : n \in 0..MaxExisting}

FileInit ==
    /\ fpc = "VALIDATE"
    /\ input_kind \in {"missing", "empty", "nocolumn", "ok"}
    /\ append \in BOOLEAN
    /\ verbose \in BOOLEAN
    /\ critique_agent \in BOOLEAN
    /\ n_chunks \in 0..MaxChunks
    /\ input_kind # "ok" => n_chunks = 0
    /\ batch_size \in 1..MaxBatchSize
    /\ batch_start = 0
    /\ out_file \in ExistingFiles
    /\ out_before = out_file
    /\ all_qa_pairs = <<>>
    /\ total_generated = 0
    /\ total_filtered = 0
    /\ future_to_chunk = [c \in 1..n_chunks |-> [st |-> "unsubmitted", result |-> Pending]]
    /\ errors = <<>>
    /\ run_error = "none"
    /\ completion_order = <<>>
    /\ as_completed_order = <<>>
    /\ handled = 0
    /\ last_saved = out_file
    /\ out_dir \in BOOLEAN
    /\ out_file.exists => out_dir
    /\ summary = NoSummary
    /\ excluded = [c \in 1..n_chunks |-> 0]
    \* the pool's workers are not followed: a submitted job can finish at any
    \* time, as it can with any num_workers >= 1
    /\ num_workers = 1
    /\ taken = {}
    /\ run = 1
    /\ JobIdle
    /\ EvalIdle
    /\ ParseIdle
    /\ ServiceIdle
    /\ RegistryIdle

\* a bug that raises ValueError for every input it rejects
InputErrorAlwaysValueError(kind) ==
    IF kind = "ok" THEN "none" ELSE "ValueError"

\* what lines 187-203 raise for the input file: FileNotFoundError when it is
\* not there, pandas' EmptyDataError (a ValueError) when it is empty,
\* ValueError when it has no chunk column
InputError(kind) ==
    CASE kind = "missing" -> "FileNotFoundError"
      [] kind = "empty" -> "EmptyDataError"
      [] kind = "nocolumn" -> "ValueError"
      [] OTHER -> "none"

\* lines 187-203: the input file is there, is not empty and has the column;
\* line 191 makes the directory of the output file once the input is there
ValidateInput ==
    /\ fpc = "VALIDATE"
    /\ IF InputError(input_kind) = "none"
       THEN fpc' = "LOAD" /\ run_error' = run_error
       ELSE fpc' = "RAISED" /\ run_error' = InputError(input_kind)
    /\ out_dir' = IF InputError(input_kind) = "FileNotFoundError" THEN out_dir ELSE TRUE
    /\ UNCHANGED <<input_kind, append, verbose, critique_agent, n_chunks, batch_size,
                   batch_start, out_file, out_before, all_qa_pairs, total_generated,
                   total_filtered, future_to_chunk, errors, completion_order,
                   as_completed_order, handled, last_saved>>
    /\ UNCHANGED <<summary, excluded>>
    /\ UNCHANGED <<num_workers, taken, run>>
    /\ UNCHANGED notFile

\* a bug that begins every run with no records, whatever the file holds
LoadedDataNone(f) == <<>>

\* json.load of the output file; a file that is not JSON gives JSONDecodeError
\* and the run starts from the empty list
LoadedData(f) == IF f.valid THEN f.recs ELSE <<>>

\* lines 205-217
LoadExisting ==
    /\ fpc = "LOAD"
    /\ all_qa_pairs' = IF append /\ out_file.exists THEN LoadedData(out_file) ELSE <<>>
    /\ total_generated' = 0
    /\ total_filtered' = 0
    /\ batch_start' = 0
    /\ fpc' = "BATCH"
    /\ UNCHANGED <<input_kind, append, verbose, critique_agent, n_chunks, batch_size,
                   out_file, out_before, future_to_chunk, errors, run_error,
                   completion_order, as_completed_order, handled, last_saved>>
    /\ UNCHANGED <<out_dir, summary, excluded>>
    /\ UNCHANGED <<num_workers, taken, run>>
    /\ UNCHANGED notFile

\* a bug that leaves the last row of every batch out
BatchOfSkipsLast(start) == {c \in 1..n_chunks : start < c /\ c < start + batch_size}

\* a bug that puts every remaining row into one batch
BatchOfUnbounded(start) == {c \in 1..n_chunks : start < c}

\* the chunks of the batch that begins at row start
BatchOf(start) == {c \in 1..n_chunks : start < c /\ c <= start + batch_size}

\* lines 228-247: the next batch; a pool of num_workers processes is made
\* for it (ProcessPoolExecutor raises ValueError for max_workers <= 0) and a
\* job is submitted to the pool for each of the batch's rows
SubmitBatch ==
    /\ fpc = "BATCH"
    /\ batch_start < n_chunks
    /\ IF num_workers <= 0
       THEN /\ fpc' = "RAISED"
            /\ run_error' = "ValueError"
            /\ UNCHANGED future_to_chunk
       ELSE /\ future_to_chunk' = [c \in 1..n_chunks |->
                                      IF c \in BatchOf(batch_start)
                                      THEN [st |-> "running", result |-> Pending]
                                      ELSE future_to_chunk[c]]
            /\ fpc' = "SUBMITTED"
            /\ UNCHANGED run_error
    /\ UNCHANGED <<input_kind, append, verbose, critique_agent, n_chunks, batch_size,
                   batch_start, out_file, out_before, all_qa_pairs, total_generated,
                   total_filtered, errors, completion_order,
                   as_completed_order, handled, last_saved>>
    /\ UNCHANGED <<out_dir, summary, excluded>>
    /\ UNCHANGED <<num_workers, taken, run>>
    /\ UNCHANGED notFile

\* a worker process finishes the job of chunk c; once as_completed waits, its
\* waiter takes the finished futures in the order in which they finish
JobCompletes(c) ==
    /\ fpc \in {"SUBMITTED", "COLLECT", "WRITING"}
    /\ future_to_chunk[c].st = "running"
    /\ \E r \in WorkerResults(c, critique_agent) :
          /\ future_to_chunk' = [future_to_chunk EXCEPT ![c] = [st |-> "done", result |-> r]]
          /\ \E x \in ExcludedCounts(r, critique_agent) :
                excluded' = [excluded EXCEPT ![c] = x]
    /\ completion_order' = Append(completion_order, c)
    /\ as_completed_order' = IF fpc = "SUBMITTED" THEN as_completed_order
                             ELSE Append(as_completed_order, c)
    /\ UNCHANGED <<fpc, input_kind, append, verbose, critique_agent, n_chunks, batch_size,
                   batch_start, out_file, out_before, all_qa_pairs, total_generated,
                   total_filtered, errors, run_error, handled, last_saved>>
    /\ UNCHANGED <<out_dir, summary>>
    /\ UNCHANGED <<num_workers, taken, run>>
    /\ UNCHANGED notFile

\* the orders in which the elements of a set can be gone through
Orders(S) ==
    {s \in [1..Cardinality(S) -> S] : \A i, j \in 1..Cardinality(S) : i # j => s[i] # s[j]}

\* line 251: as_completed(future_to_chunk) is called; the futures that have
\* finished by then are a set, which it yields first, in the order of the set
AsCompleted ==
    /\ fpc = "SUBMITTED"
    /\ \E first \in Orders({c \in BatchOf(batch_start) : future_to_chunk[c].st = "done"}) :
          as_completed_order' = as_completed_order \o first
    /\ fpc' = "COLLECT"
    /\ UNCHANGED <<input_kind, append, verbose, critique_agent, n_chunks, batch_size,
                   batch_start, out_file, out_before, all_qa_pairs, total_generated,
                   total_filtered, future_to_chunk, errors, run_error, completion_order,
                   handled, last_saved>>
    /\ UNCHANGED <<out_dir, summary, excluded>>
    /\ UNCHANGED <<num_workers, taken, run>>
    /\ UNCHANGED notFile

\* open(output_path, 'w'): the file is there and empty
Truncated == [exists |-> TRUE, valid |-> FALSE, recs |-> <<>>]

\* json.dump(all_qa_pairs, f, indent=4): a value it cannot write makes it
\* raise TypeError, and leaves the beginning of the document in the file
Dumped(pairs) ==
    IF \A k \in DOMAIN pairs : pairs[k].json_ok
    THEN [exists |-> TRUE, valid |-> TRUE, recs |-> pairs]
    ELSE [exists |-> TRUE, valid |-> FALSE, recs |-> <<>>]

\* line 264: sum(1 for p in qa_pairs if p['aggregate_score'] >= min_critique_score)
Filtered(pairs) ==
    Cardinality({k \in DOMAIN pairs :
                    MeetsMinScore(pairs[k].aggregate_score, DefaultMinCritiqueScore)})

\* a bug that takes the next future while the file is open
WriteMayBeInProgress == fpc \in {"COLLECT", "WRITING"}

\* the orchestrator is not inside  with open(output_path, 'w')
NoWriteInProgress == fpc = "COLLECT"

\* lines 251-258 and 269-273: the loop over as_completed takes the next
\* future, that of chunk c.  A job that raised has its error printed; the
\* result of one that returned is added to all_qa_pairs and the output file
\* is opened for writing
Collect(c) ==
    /\ NoWriteInProgress
    /\ handled < Len(as_completed_order)
    /\ c = as_completed_order[handled + 1]
    /\ future_to_chunk[c].st = "done"
    /\ handled' = handled + 1
    /\ LET r == future_to_chunk[c].result
       IN IF r.raised \/ r.none
          THEN /\ errors' = Append(errors, [chunk |-> c,
                                            cause |-> IF r.raised THEN "job" ELSE "len"])
               /\ future_to_chunk' = [future_to_chunk EXCEPT ![c].st = "collected"]
               /\ UNCHANGED <<fpc, out_file, all_qa_pairs, total_generated, last_saved>>
          ELSE /\ total_generated' = total_generated + Len(r.pairs)
               /\ all_qa_pairs' = all_qa_pairs \o r.pairs
               /\ last_saved' = out_file
               /\ out_file' = Truncated
               /\ future_to_chunk' = [future_to_chunk EXCEPT ![c].st = "writing"]
               /\ fpc' = "WRITING"
               /\ errors' = errors
    /\ UNCHANGED <<input_kind, append, verbose, critique_agent, n_chunks, batch_size,
                   batch_start, out_before, total_filtered, run_error, completion_order,
                   as_completed_order>>
    /\ UNCHANGED <<out_dir, summary, excluded>>
    /\ UNCHANGED <<num_workers, taken, run>>
    /\ UNCHANGED notFile

\* lines 259-273: json.dump writes all_qa_pairs and the file is closed; the
\* counters of the report are brought up to date, or the error of json.dump
\* is printed as an error of chunk c
Dump(c) ==
    /\ fpc = "WRITING"
    /\ future_to_chunk[c].st = "writing"
    /\ out_file' = Dumped(all_qa_pairs)
    /\ IF Dumped(all_qa_pairs).valid
       THEN /\ total_filtered' = IF verbose /\ critique_agent
                                 THEN total_filtered + Filtered(future_to_chunk[c].result.pairs)
                                 ELSE total_filtered
            /\ errors' = errors
       ELSE /\ total_filtered' = total_filtered
            /\ errors' = Append(errors, [chunk |-> c, cause |-> "dump"])
    /\ future_to_chunk' = [future_to_chunk EXCEPT ![c].st = "collected"]
    /\ fpc' = "COLLECT"
    /\ UNCHANGED <<input_kind, append, verbose, critique_agent, n_chunks, batch_size,
                   batch_start, out_before, all_qa_pairs, total_generated, run_error,
                   completion_order, as_completed_order, handled, last_saved>>
    /\ UNCHANGED <<out_dir, summary, excluded>>
    /\ UNCHANGED <<num_workers, taken, run>>
    /\ UNCHANGED notFile

\* lines 274-276 and 228: every future of the batch has been handled, the
\* executor is closed and the loop goes to the next batch
EndBatch ==
    /\ fpc = "COLLECT"
    /\ \A c \in BatchOf(batch_start) : future_to_chunk[c].st = "collected"
    /\ batch_start' = batch_start + batch_size
    /\ fpc' = "BATCH"
    /\ UNCHANGED <<input_kind, append, verbose, critique_agent, n_chunks, batch_size,
                   out_file, out_before, all_qa_pairs, total_generated, total_filtered,
                   future_to_chunk, errors, run_error, completion_order,
                   as_completed_order, handled, last_saved>>
    /\ UNCHANGED <<out_dir, summary, excluded>>
    /\ UNCHANGED <<num_workers, taken, run>>
    /\ UNCHANGED notFile

\* lines 278-282: the summary, whose last line divides by total_generated
Finish ==
    /\ fpc = "BATCH"
    /\ batch_start >= n_chunks
    /\ summary' = IF verbose /\ critique_agent
                  THEN [printed |-> TRUE, generated |-> total_generated,
                        filtered |-> total_filtered]
                  ELSE summary
    /\ IF verbose /\ critique_agent /\ total_generated = 0
       THEN fpc' = "RAISED" /\ run_error' = "ZeroDivisionError"
       ELSE fpc' = "DONE" /\ run_error' = run_error
    /\ UNCHANGED <<input_kind, append, verbose, critique_agent, n_chunks, batch_size,
                   batch_start, out_file, out_before, all_qa_pairs, total_generated,
                   total_filtered, future_to_chunk, errors, completion_order,
                   as_completed_order, handled, last_saved>>
    /\ UNCHANGED <<out_dir, excluded>>
    /\ UNCHANGED <<num_workers, taken, run>>
    /\ UNCHANGED notFile

FileNext ==
    \/ ValidateInput
    \/ LoadExisting
    \/ SubmitBatch
    \/ \E c \in 1..n_chunks : JobCompletes(c)
    \/ AsCompleted
    \/ \E c \in 1..n_chunks : Collect(c)
    \/ \E c \in 1..n_chunks : Dump(c)
    \/ EndBatch
    \/ Finish

FileSpec == FileInit /\ [][FileNext]_vars

----------------------------------------------------------------------------
\* ServiceSpec: one call of LLMService.generate_qa or of
\* LLMService.generate_and_evaluate_answer.

ServiceMethods == {"generate_qa", "generate_and_evaluate_answer"}

\* the criteria argument: None, [], a list of criterion dicts, or a list
\* with an element that is not a dict
ServiceCriteria == {"none", "empty", "list", "malformed"}

\* lines 13-29 and the arguments of lines 32-33 and 117-124
ServiceInit ==
    /\ svc_pc = "CALLED"
    /\ svc_method \in ServiceMethods
    /\ svc_evaluator \in BOOLEAN
    /\ svc_with_critique \in BOOLEAN
    /\ svc_method = "generate_and_evaluate_answer" => ~svc_with_critique
    /\ svc_criteria \in ServiceCriteria
    /\ svc_response = "none"
    /\ svc_model_calls = 0
    /\ svc_eval_calls = 0
    /\ svc_evaluation = NoEvaluation
    /\ svc_result = NoServiceResult
    /\ JobIdle
    /\ EvalIdle
    /\ FileIdle
    /\ ParseIdle
    /\ RegistryIdle

\* what self.model(prompt) can do: raise, or return a text; for generate_qa
\* the text is one that ast.literal_eval rejects, a dict or another literal
ModelOutcomes(method) ==
    IF method = "generate_qa" THEN {"raises", "unparsable", "dict", "nondict"}
    ELSE {"raises", "text"}

\* the call raised the exception error
ServiceRaised(error) ==
    [ended |-> TRUE, error |-> error, pairs |-> <<>>, critiques |-> <<>>,
     aggregate_score |-> NoScore]

\* generate_qa returned the list pairs
ServicePairs(pairs) ==
    [ended |-> TRUE, error |-> "none", pairs |-> pairs, critiques |-> <<>>,
     aggregate_score |-> NoScore]

\* generate_and_evaluate_answer returned a dict with these critiques and
\* this aggregate_score
ServiceAnswer(cs, score) ==
    [ended |-> TRUE, error |-> "none", pairs |-> <<>>, critiques |-> cs,
     aggregate_score |-> score]

\* lines 75 and 147-150: the one call of the generation model; what it
\* raises is not caught
ServiceCallModel ==
    /\ svc_pc = "CALLED"
    /\ \E r \in ModelOutcomes(svc_method) :
          /\ svc_response' = r
          /\ IF r = "raises"
             THEN svc_pc' = "RAISED" /\ svc_result' = ServiceRaised("ModelError")
             ELSE svc_pc' = "GENERATED" /\ UNCHANGED svc_result
    /\ svc_model_calls' = svc_model_calls + 1
    /\ UNCHANGED <<svc_method, svc_evaluator, svc_with_critique, svc_criteria,
                   svc_eval_calls, svc_evaluation>>
    /\ UNCHANGED notService

\* a rating as a score
ScoreOf(r) == [null |-> FALSE, num |-> r, den |-> 1]

\* what evaluate_qa_pair (critique.py 64-138) and evaluate_generated_answer
\* (critique.py 140-255) do with the criteria they are given: a criterion
\* that is not a dict makes criterion.get raise AttributeError outside the
\* try; every other failure ends in a critique, so that the method returns
\* critiques with their aggregate score
EvaluatorOutcomes(crit) ==
    IF crit = "malformed"
    THEN {[called |-> TRUE, raised |-> TRUE, critiques |-> <<>>, aggregate_score |-> NoScore]}
    ELSE {[called |-> TRUE, raised |-> FALSE,
           critiques |-> <<[name |-> "criterion", rating |-> r]>>,
           aggregate_score |-> ScoreOf(r)] : r \in JudgeRatings}

\* a pair of the list generate_qa returns: the literal of the response,
\* with the keys critiques and aggregate_score when it was evaluated
ServicePair(is_dict, evaluation) ==
    [is_dict |-> is_dict, critiqued |-> evaluation.called,
     critiques |-> evaluation.critiques, aggregate_score |-> evaluation.aggregate_score]

\* lines 77-115: the response is parsed and, with with_critique and an
\* evaluator, the pair is evaluated
GenerateQAReturn ==
    /\ svc_pc = "GENERATED"
    /\ svc_method = "generate_qa"
    /\ IF svc_response = "unparsable"
       THEN /\ svc_pc' = "RAISED"
            /\ svc_result' = ServiceRaised("ValueError")
            /\ UNCHANGED <<svc_eval_calls, svc_evaluation>>
       ELSE IF svc_with_critique /\ svc_evaluator
       THEN IF svc_criteria \in {"none", "empty"}
            THEN /\ svc_pc' = "RAISED"
                 /\ svc_result' = ServiceRaised("ValueError")
                 /\ UNCHANGED <<svc_eval_calls, svc_evaluation>>
            ELSE IF svc_response = "nondict"
            THEN \* pair.get of line 105
                 /\ svc_pc' = "RAISED"
                 /\ svc_result' = ServiceRaised("AttributeError")
                 /\ UNCHANGED <<svc_eval_calls, svc_evaluation>>
            ELSE \E o \in EvaluatorOutcomes(svc_criteria) :
                    /\ svc_eval_calls' = svc_eval_calls + 1
                    /\ svc_evaluation' = o
                    /\ IF o.raised
                       THEN /\ svc_pc' = "RAISED"
                            /\ svc_result' = ServiceRaised("AttributeError")
                       ELSE /\ svc_pc' = "RETURNED"
                            /\ svc_result' = ServicePairs(<<ServicePair(TRUE, o)>>)
       ELSE /\ svc_pc' = "RETURNED"
            /\ svc_result' = ServicePairs(<<ServicePair(svc_response = "dict", NoEvaluation)>>)
            /\ UNCHANGED <<svc_eval_calls, svc_evaluation>>
    /\ UNCHANGED <<svc_method, svc_evaluator, svc_with_critique, svc_criteria,
                   svc_response, svc_model_calls>>
    /\ UNCHANGED notService

\* the critique of line 174
EvaluationErrorCritique == [name |-> "evaluation_error", rating |-> 1]

\* a bug that leaves the result without critiques when the evaluator raises
AnswerEvaluationDropsError(o) ==
    IF o.raised
    THEN [critiques |-> <<>>, aggregate_score |-> NoScore]
    ELSE [critiques |-> o.critiques, aggregate_score |-> o.aggregate_score]

\* lines 159-175: the critiques and the aggregate score taken from what the
\* evaluator gave
AnswerEvaluation(o) ==
    IF o.raised
    THEN [critiques |-> <<EvaluationErrorCritique>>, aggregate_score |-> ScoreOf(1)]
    ELSE [critiques |-> o.critiques, aggregate_score |-> o.aggregate_score]

\* lines 153-188: the answer is evaluated when there is an evaluator, and
\* the result is returned
AnswerReturn ==
    /\ svc_pc = "GENERATED"
    /\ svc_method = "generate_and_evaluate_answer"
    /\ IF svc_evaluator
       THEN \E o \in EvaluatorOutcomes(svc_criteria) :
               /\ svc_eval_calls' = svc_eval_calls + 1
               /\ svc_evaluation' = o
               /\ svc_result' = ServiceAnswer(AnswerEvaluation(o).critiques,
                                              AnswerEvaluation(o).aggregate_score)
       ELSE /\ svc_result' = ServiceAnswer(<<>>, NoScore)
            /\ UNCHANGED <<svc_eval_calls, svc_evaluation>>
    /\ svc_pc' = "RETURNED"
    /\ UNCHANGED <<svc_method, svc_evaluator, svc_with_critique, svc_criteria,
                   svc_response, svc_model_calls>>
    /\ UNCHANGED notService

ServiceNext ==
    \/ ServiceCallModel
    \/ GenerateQAReturn
    \/ AnswerReturn

ServiceSpec == ServiceInit /\ [][ServiceNext]_vars

----------------------------------------------------------------------------
\* RegistrySpec: a ModelRegistry, its configuration file and the calls of
\* set_model_enabled, delete_model, commit_cached_changes and
\* discard_cached_changes.

\* the model ids the callers use
ModelIds == {"m1", "m2"}

\* the dicts from some of the ids to a flag
Maps(ids) == UNION {[D -> BOOLEAN] : D \in SUBSET ids}

\* d[k] = v
Put(d, k, v) == [x \in DOMAIN d \cup {k} |-> IF x = k THEN v ELSE d[x]]

\* lines 12-27 and 51-86: the registry is made and loads the models of the
\* configuration file, when there is one
RegistryInit ==
    /\ rpc = "READY"
    /\ saved_config \in {NoConfig} \cup {[exists |-> TRUE, models |-> ms] : ms \in Maps(ModelIds)}
    /\ models = saved_config.models
    /\ cached_changes = EmptyMap
    /\ has_pending_changes = FALSE
    /\ last_call = NoCall
    /\ before = [models |-> models, saved_config |-> saved_config,
                 cached_changes |-> cached_changes]
    /\ JobIdle
    /\ EvalIdle
    /\ FileIdle
    /\ ParseIdle
    /\ ServiceIdle

\* the registry and its file as a method finds them
Snapshot ==
    [models |-> models, saved_config |-> saved_config, cached_changes |-> cached_changes]

\* lines 36-49, save_config: the file is rewritten with self.models, or the
\* write fails, the error is logged and the file is as it was
SavedConfigs(ms) == {[exists |-> TRUE, models |-> ms], saved_config}

\* lines 138-148
SetModelEnabled(model_id, enabled, cache_only) ==
    /\ rpc = "READY"
    /\ before' = Snapshot
    /\ IF cache_only
       THEN /\ cached_changes' = Put(cached_changes, model_id, enabled)
            /\ has_pending_changes' = TRUE
            /\ UNCHANGED <<models, saved_config>>
            /\ last_call' = [op |-> "set_model_enabled", model_id |-> model_id,
                             enabled |-> enabled, cache_only |-> TRUE, ret |-> "None"]
       ELSE IF model_id \in DOMAIN models
       THEN /\ models' = Put(models, model_id, enabled)
            /\ saved_config' \in SavedConfigs(models')
            /\ UNCHANGED <<cached_changes, has_pending_changes>>
            /\ last_call' = [op |-> "set_model_enabled", model_id |-> model_id,
                             enabled |-> enabled, cache_only |-> FALSE, ret |-> "None"]
       ELSE \* self.models[model_id] raises KeyError
            /\ UNCHANGED <<models, saved_config, cached_changes, has_pending_changes>>
            /\ last_call' = [op |-> "set_model_enabled", model_id |-> model_id,
                             enabled |-> enabled, cache_only |-> FALSE, ret |-> "KeyError"]
    /\ UNCHANGED rpc
    /\ UNCHANGED notRegistry

\* lines 150-159
DeleteModel(model_id) ==
    /\ rpc = "READY"
    /\ before' = Snapshot
    /\ IF model_id \in DOMAIN models
       THEN /\ models' = [x \in DOMAIN models \ {model_id} |-> models[x]]
            /\ saved_config' \in SavedConfigs(models')
       ELSE UNCHANGED <<models, saved_config>>
    /\ last_call' = [op |-> "delete_model", model_id |-> model_id, enabled |-> FALSE,
                     cache_only |-> FALSE, ret |-> "None"]
    /\ UNCHANGED <<rpc, cached_changes, has_pending_changes>>
    /\ UNCHANGED notRegistry

\* a bug that commits without applying the changes
AppliedNone(ms, changes) == ms

\* lines 169-171: the cached flags of the models the registry has
Applied(ms, changes) ==
    [x \in DOMAIN ms |-> IF x \in DOMAIN changes THEN changes[x] ELSE ms[x]]

\* lines 161-180
CommitCachedChanges ==
    /\ rpc = "READY"
    /\ before' = Snapshot
    /\ IF ~has_pending_changes
       THEN /\ UNCHANGED <<models, saved_config, cached_changes, has_pending_changes>>
            /\ last_call' = [op |-> "commit_cached_changes", model_id |-> "none",
                             enabled |-> FALSE, cache_only |-> FALSE, ret |-> "False"]
       ELSE /\ models' = Applied(models, cached_changes)
            /\ saved_config' \in SavedConfigs(models')
            /\ cached_changes' = EmptyMap
            /\ has_pending_changes' = FALSE
            /\ last_call' = [op |-> "commit_cached_changes", model_id |-> "none",
                             enabled |-> FALSE, cache_only |-> FALSE, ret |-> "True"]
    /\ UNCHANGED rpc
    /\ UNCHANGED notRegistry

\* lines 182-187
DiscardCachedChanges ==
    /\ rpc = "READY"
    /\ before' = Snapshot
    /\ IF has_pending_changes
       THEN cached_changes' = EmptyMap /\ has_pending_changes' = FALSE
       ELSE UNCHANGED <<cached_changes, has_pending_changes>>
    /\ last_call' = [op |-> "discard_cached_changes", model_id |-> "none",
                     enabled |-> FALSE, cache_only |-> FALSE, ret |-> "None"]
    /\ UNCHANGED <<rpc, models, saved_config>>
    /\ UNCHANGED notRegistry

RegistryNext ==
    \/ \E m \in ModelIds, e \in BOOLEAN, c \in BOOLEAN : SetModelEnabled(m, e, c)
    \/ \E m \in ModelIds : DeleteModel(m)
    \/ CommitCachedChanges
    \/ DiscardCachedChanges

RegistrySpec == RegistryInit /\ [][RegistryNext]_vars

----------------------------------------------------------------------------
\* PoolSpec: generate_from_file with the worker processes of each batch's
\* pool followed (line 232, ProcessPoolExecutor(max_workers=self.num_workers)).
\* A future whose st is "running" has been submitted and has not finished;
\* it is executed once a worker of the pool has taken it.

\* the jobs that worker processes are executing
Running == {c \in taken : future_to_chunk[c].st = "running"}

\* the jobs submitted to a pool and not yet collected by the as_completed loop
Outstanding ==
    {c \in DOMAIN future_to_chunk : future_to_chunk[c].st \in {"running", "done", "writing"}}

\* lines 104-129 and 163-181: a generator with any num_workers, run on a
\* readable input with no output file yet
PoolInit ==
    /\ fpc = "VALIDATE"
    /\ input_kind = "ok"
    /\ append = FALSE
    /\ verbose = FALSE
    /\ critique_agent = FALSE
    /\ n_chunks \in 0..MaxPoolChunks
    /\ batch_size \in 1..MaxBatchSize
    /\ batch_start = 0
    /\ out_file = NoFile
    /\ out_before = out_file
    /\ all_qa_pairs = <<>>
    /\ total_generated = 0
    /\ total_filtered = 0
    /\ future_to_chunk = [c \in 1..n_chunks |-> [st |-> "unsubmitted", result |-> Pending]]
    /\ errors = <<>>
    /\ run_error = "none"
    /\ completion_order = <<>>
    /\ as_completed_order = <<>>
    /\ handled = 0
    /\ last_saved = out_file
    /\ out_dir = FALSE
    /\ summary = NoSummary
    /\ excluded = [c \in 1..n_chunks |-> 0]
    /\ num_workers \in 0..MaxWorkers
    /\ taken = {}
    /\ run = 1
    /\ JobIdle
    /\ EvalIdle
    /\ ParseIdle
    /\ ServiceIdle
    /\ RegistryIdle

\* a worker process of the pool that is free takes the job of chunk c; the
\* pool has max_workers processes, so no more than that many jobs are taken
\* and unfinished
WorkerTakes(c) ==
    /\ fpc \in {"SUBMITTED", "COLLECT", "WRITING"}
    /\ future_to_chunk[c].st = "running"
    /\ c \notin taken
    /\ Cardinality(Running) < num_workers
    /\ taken' = taken \cup {c}
    /\ UNCHANGED <<fpc, input_kind, append, verbose, critique_agent, n_chunks, batch_size,
                   batch_start, out_file, out_before, all_qa_pairs, total_generated,
                   total_filtered, future_to_chunk, errors, run_error, completion_order,
                   as_completed_order, handled, last_saved>>
    /\ UNCHANGED <<out_dir, summary, excluded, num_workers, run>>
    /\ UNCHANGED notFile

\* the worker process that took the job of chunk c finishes it; the jobs of
\* PoolSpec raise or return one pair that json can write
WorkerCompletes(c) ==
    /\ c \in taken
    /\ JobCompletes(c)
    /\ \/ future_to_chunk'[c].result = Raised
       \/ future_to_chunk'[c].result = Returned(<<PairOf(c, 1, TRUE, NoScore)>>)

PoolNext ==
    \/ ValidateInput
    \/ LoadExisting
    \/ SubmitBatch
    \/ \E c \in 1..n_chunks : WorkerTakes(c)
    \/ \E c \in 1..n_chunks : WorkerCompletes(c)
    \/ AsCompleted
    \/ \E c \in 1..n_chunks : Collect(c)
    \/ \E c \in 1..n_chunks : Dump(c)
    \/ EndBatch
    \/ Finish

PoolSpec == PoolInit /\ [][PoolNext]_vars

----------------------------------------------------------------------------
\* RerunSpec: generate_from_file called again, in append mode, with the same
\* input and the same output after a call has returned.

\* lines 163-181: the first call, in append mode (the default), on a readable
\* input, with no output file yet
RerunInit ==
    /\ FileInit
    /\ input_kind = "ok"
    /\ append
    /\ ~verbose
    /\ ~critique_agent
    /\ out_file = NoFile

\* the caller calls generate_from_file a second time after the first call
\* has returned: the method's locals are fresh, the input and the generator
\* are the same and the output file is what the first call left
RunAgain ==
    /\ fpc = "DONE"
    /\ run = 1
    /\ run' = run + 1
    /\ fpc' = "VALIDATE"
    /\ batch_start' = 0
    /\ out_before' = out_file
    /\ last_saved' = out_file
    /\ all_qa_pairs' = <<>>
    /\ total_generated' = 0
    /\ total_filtered' = 0
    /\ future_to_chunk' = [c \in 1..n_chunks |-> [st |-> "unsubmitted", result |-> Pending]]
    /\ errors' = <<>>
    /\ completion_order' = <<>>
    /\ as_completed_order' = <<>>
    /\ handled' = 0
    /\ summary' = NoSummary
    /\ excluded' = [c \in 1..n_chunks |-> 0]
    /\ UNCHANGED <<input_kind, append, verbose, critique_agent, n_chunks, batch_size,
                   out_file, run_error, out_dir, num_workers, taken>>
    /\ UNCHANGED notFile

\* a job of RerunSpec finishes: it raises or returns one pair that json can
\* write
JobYieldsOnePairOrRaises(c) ==
    /\ JobCompletes(c)
    /\ \/ future_to_chunk'[c].result = Raised
       \/ future_to_chunk'[c].result = Returned(<<PairOf(c, 1, TRUE, NoScore)>>)

RerunNext ==
    \/ ValidateInput
    \/ LoadExisting
    \/ SubmitBatch
    \/ \E c \in 1..n_chunks : JobYieldsOnePairOrRaises(c)
    \/ AsCompleted
    \/ \E c \in 1..n_chunks : Collect(c)
    \/ \E c \in 1..n_chunks : Dump(c)
    \/ EndBatch
    \/ Finish
    \/ RunAgain

RerunSpec == RerunInit /\ [][RerunNext]_vars

(***************************************************************************)
(* The two parsers of a generation model's response.                        *)
(***************************************************************************)
\* what a list in a response can hold: a dict with a non-empty string under
\* 'question' and under 'answer' ("pair"), a dict with both keys and another
\* value under one of them ("badvalue"), a dict without one of the keys
\* ("nokey"), and something that is no dict ("nodict")
ElementKinds == {"pair", "badvalue", "nokey", "nodict"}

\* the response texts: one Python literal, or text that is none ("garbage"),
\* as it is or between code fences
ResponseTexts ==
    {[form |-> f, shape |-> "garbage", items |-> <<>>] : f \in {"plain", "fenced"}}
        \cup {[form |-> f, shape |-> "scalar", items |-> <<>>] : f \in {"plain", "fenced"}}
        \cup {[form |-> f, shape |-> "object", items |-> <<k>>] :
                 f \in {"plain", "fenced"}, k \in ElementKinds \ {"nodict"}}
        \cup {[form |-> f, shape |-> "list", items |-> s] :
                 f \in {"plain", "fenced"}, s \in SeqsUpTo(ElementKinds, MaxPairs)}

\* the Python value of an element of a list
ElementValue(k) ==
    IF k = "nodict" THEN [shape |-> "scalar", items |-> <<>>]
    ELSE [shape |-> "object", items |-> <<k>>]

ParserRaises == [raised |-> TRUE, list |-> <<>>]

\* ast.literal_eval: the value of the text, or an exception for text that is
\* no literal; code fences are no part of a literal
LiteralEval(text) ==
    IF text.form = "fenced" \/ text.shape = "garbage"
    THEN [raised |-> TRUE, value |-> [shape |-> "none", items |-> <<>>]]
    ELSE [raised |-> FALSE, value |-> [shape |-> text.shape, items |-> text.items]]

\* qa_generator.py lines 47-56, for a job without critique: the response
\* must be a list, and each element a dict with 'question' and 'answer'
WorkerParse(text) ==
    LET parsed == LiteralEval(text)
    IN IF parsed.raised THEN ParserRaises
       ELSE IF parsed.value.shape # "list" THEN ParserRaises
       ELSE IF \E i \in DOMAIN parsed.value.items :
                  parsed.value.items[i] \in {"nodict", "nokey"}
       THEN ParserRaises
       ELSE [raised |-> FALSE,
             list |-> [i \in DOMAIN parsed.value.items |->
                          ElementValue(parsed.value.items[i])]]

\* response.strip().strip("```json").strip("```")
StripFences(text) == [text EXCEPT !.form = "plain"]

\* llm_service.py lines 77-90: the fences are stripped, the literal is
\* evaluated, and its value is put in a list
ServiceParse(text) ==
    LET parsed == LiteralEval(StripFences(text))
    IN IF parsed.raised THEN ParserRaises
       ELSE [raised |-> FALSE, list |-> <<parsed.value>>]

ParseInit ==
    /\ ppc = "INPUT"
    /\ parser \in {"worker", "service"}
    /\ parse_input \in ResponseTexts
    /\ parse_output = NoOutput
    /\ JobIdle
    /\ EvalIdle
    /\ FileIdle
    /\ ServiceIdle
    /\ RegistryIdle

Parse ==
    /\ ppc = "INPUT"
    /\ parse_output' = IF parser = "worker" THEN WorkerParse(parse_input)
                       ELSE ServiceParse(parse_input)
    /\ ppc' = "PARSED"
    /\ UNCHANGED <<parser, parse_input>>
    /\ UNCHANGED notParse

ParseNext == Parse

ParseSpec == ParseInit /\ [][ParseNext]_vars

(***************************************************************************)
(* Properties of the parsers.                                               *)
(***************************************************************************)
\* the response is one QA map, or a list of one or more QA maps
WellFormed(text) ==
    /\ text.shape \in {"object", "list"}
    /\ text.items # <<>>
    /\ \A i \in DOMAIN text.items : text.items[i] = "pair"

\* the response is no list and no object, or holds an element that is no
\* dict, lacks a key, or has a value that is not a non-empty string
Malformed(text) ==
    \/ text.shape \notin {"object", "list"}
    \/ \E i \in DOMAIN text.items : text.items[i] # "pair"

\* C15: a malformed response makes the parser raise, and what a parser
\* returns holds QA maps only.
C15_MalformedAlwaysRaises ==
    ppc = "PARSED" =>
        /\ Malformed(parse_input) => parse_output.raised
        /\ \A i \in DOMAIN parse_output.list : parse_output.list[i] = ElementValue("pair")

\* C17: for a well-formed response the parser returns the flat list of its
\* QA maps: one map for a single object, the n maps for a list of n.
C17_FlatListOfPairs ==
    (ppc = "PARSED" /\ WellFormed(parse_input)) =>
        /\ ~parse_output.raised
        /\ parse_output.list = [i \in DOMAIN parse_input.items |-> ElementValue("pair")]

(***************************************************************************)
(* The two parsers of a judge's reply: CritiqueEvaluator._parse_critique    *)
(* (critique.py, lines 41-62) and CritiqueAgent._parse_critique             *)
(* (critique_agent.py, lines 88-118).  They use the variables of the        *)
(* parsers above.                                                           *)
(***************************************************************************)
\* the numbers a reply can give as its rating, in tenths: -1.0, 0, 1.0, 4.5,
\* 5.0 and 7.0
RatingTenths == {-10, 0, 10, 45, 50, 70}

\* what a reply has for its rating: nothing (no 'rating' key, no
\* 'Total rating:' label), the key or label with nothing for a value (null,
\* or no text after the label), a word, or a number
RatingTokens ==
    {[kind |-> k, tenths |-> 0] : k \in {"absent", "blank", "word"}}
        \cup {[kind |-> "number", tenths |-> t] : t \in RatingTenths}

\* what a reply has for its evaluation: nothing (no 'evaluation' key, no
\* 'Evaluation:' label), the key or label with no text, or a text
EvaluationTokens == {"absent", "blank", "text"}

\* a judge's reply: a JSON object, bare or in a ```json fence; JSON that is
\* not an object (a number); the labelled free text
\* "Evaluation: ... Total rating: ..."; or anything else
JudgeReplyTexts ==
    {[format |-> f, evaluation |-> e, rating |-> r] :
        f \in {"json", "fenced_json", "labelled"},
        e \in EvaluationTokens, r \in RatingTokens}
    \cup {[format |-> f, evaluation |-> "absent",
           rating |-> [kind |-> "absent", tenths |-> 0]] :
             f \in {"json_scalar", "garbage"}}

\* what _parse_critique does: the critique it returns, or the class of the
\* exception it raises
CritiqueParsed(e, t) == [raised |-> FALSE, err |-> "none", evaluation |-> e, rating |-> t]
CritiqueRaises(err) == [raised |-> TRUE, err |-> err, evaluation |-> "none", rating |-> 0]
NoCritique == [raised |-> FALSE, err |-> "none", evaluation |-> "none", rating |-> 0]

\* the negation of  "evaluation" not in parsed or "rating" not in parsed
HasRequiredKeys(text) ==
    text.evaluation # "absent" /\ text.rating.kind # "absent"

\* CritiqueEvaluator._parse_critique.  json.loads raises JSONDecodeError for
\* what is not JSON, which line 62 turns into ValueError; the key test of
\* line 56 raises TypeError for a number; float() of line 58 raises TypeError
\* for null and ValueError for a word, and neither is caught.
StructuredParseCritique(text) ==
    IF text.format \in {"labelled", "garbage"} THEN CritiqueRaises("ValueError")
    ELSE IF text.format = "json_scalar" THEN CritiqueRaises("TypeError")
    ELSE IF ~HasRequiredKeys(text) THEN CritiqueRaises("ValueError")
    ELSE CASE text.rating.kind = "absent" -> CritiqueRaises("KeyError")
           [] text.rating.kind = "blank" -> CritiqueRaises("TypeError")
           [] text.rating.kind = "word" -> CritiqueRaises("ValueError")
           [] text.rating.kind = "number" ->
                 CritiqueParsed(text.evaluation, text.rating.tenths)

\* re.search(r'Total rating:\s*(\d+(?:\.\d+)?)', response): the label followed
\* by an unsigned number
LegacyRatingMatches(text) ==
    /\ text.format = "labelled"
    /\ text.rating.kind = "number"
    /\ text.rating.tenths >= 0

\* re.search(r'Evaluation:\s*(.*?)(?=Total rating:|$)', response, re.DOTALL):
\* the label, with the text after it, which may be empty
LegacyEvaluationMatches(text) ==
    text.format = "labelled" /\ text.evaluation # "absent"

\* CritiqueAgent._parse_critique: every exception becomes ValueError (line 118)
LegacyParseCritique(text) ==
    IF LegacyEvaluationMatches(text) /\ LegacyRatingMatches(text)
    THEN CritiqueParsed(text.evaluation, text.rating.tenths)
    ELSE CritiqueRaises("ValueError")

CritiqueParseInit ==
    /\ ppc = "INPUT"
    /\ parser \in {"structured", "legacy"}
    /\ parse_input \in JudgeReplyTexts
    /\ parse_output = NoCritique
    /\ JobIdle
    /\ EvalIdle
    /\ FileIdle
    /\ ServiceIdle
    /\ RegistryIdle

\* one call of _parse_critique
ParseCritique ==
    /\ ppc = "INPUT"
    /\ ppc' = "PARSED"
    /\ parse_output' = IF parser = "structured"
                       THEN StructuredParseCritique(parse_input)
                       ELSE LegacyParseCritique(parse_input)
    /\ UNCHANGED <<parser, parse_input>>
    /\ UNCHANGED notParse

CritiqueParseNext == ParseCritique

CritiqueParseSpec == CritiqueParseInit /\ [][CritiqueParseNext]_vars

(***************************************************************************)
(* Properties of the parsers of a judge's reply.                            *)
(***************************************************************************)
\* C23: every rating in a critique lies in [1.0, 5.0]: the rating either
\* parser returns, and the rating of the sentinel.
C23_RatingInRange ==
    /\ (ppc = "PARSED" /\ ~parse_output.raised) =>
          (10 <= parse_output.rating /\ parse_output.rating <= 50)
    /\ 1 <= SentinelCritique.rating /\ SentinelCritique.rating <= 5

\* the reply has no evaluation, or has no rating
LacksField(text) == text.evaluation = "absent" \/ text.rating.kind = "absent"

\* C25: a reply that lacks the evaluation or lacks the rating makes either
\* parser raise ValueError, and no critique is returned for it.
C25_MissingFieldIsValueError ==
    (ppc = "PARSED" /\ LacksField(parse_input)) =>
        (parse_output.raised /\ parse_output.err = "ValueError")

\* C25, as far as it holds: for a reply that lacks a field either parser
\* raises, and what it raises is ValueError unless the reply is JSON that is
\* not an object
MissingFieldRaises ==
    (ppc = "PARSED" /\ LacksField(parse_input)) =>
        /\ parse_output.raised
        /\ parse_input.format # "json_scalar" => parse_output.err = "ValueError"

(***************************************************************************)
(* Properties of generate_from_file.                                        *)
(***************************************************************************)
JobRaised(c) == future_to_chunk[c].st = "collected" /\ future_to_chunk[c].result.raised

JobReturned(c) == future_to_chunk[c].st = "collected" /\ ~future_to_chunk[c].result.raised

\* the run began in append mode over an output file that was valid
ResumesValidOutput == append /\ out_before.exists /\ out_before.valid

\* C6: partial-failure isolation.  An error is recorded for the chunks whose
\* job raised, once each, and for no other chunk; the results of every job
\* that returned are merged into all_qa_pairs and, between two writes, are in
\* the persisted output once the job has been handled; a run in which a job
\* raised does not raise; and a finished run has handled the job of every
\* chunk.
C6_PartialFailureIsolation ==
    /\ \A k \in DOMAIN errors : JobRaised(errors[k].chunk)
    /\ \A c \in DOMAIN future_to_chunk :
          JobRaised(c) => Cardinality({k \in DOMAIN errors : errors[k].chunk = c}) = 1
    /\ \A c \in DOMAIN future_to_chunk :
          (JobReturned(c) /\ fpc # "WRITING") =>
              /\ Range(future_to_chunk[c].result.pairs) \subseteq Range(all_qa_pairs)
              /\ out_file.valid
              /\ Range(future_to_chunk[c].result.pairs) \subseteq Range(out_file.recs)
    /\ (\E c \in DOMAIN future_to_chunk : JobRaised(c)) => fpc # "RAISED"
    /\ fpc = "DONE" => \A c \in DOMAIN future_to_chunk : future_to_chunk[c].st = "collected"

\* C7: in a run in append mode over a valid output file, every write that
\* has been completed has left a valid file whose records begin with the
\* records the file had before that write.
C7_RewriteKeepsPrefix ==
    (ResumesValidOutput /\ fpc # "WRITING")
        => (out_file.valid /\ IsPrefix(LoadedData(last_saved), out_file.recs))

\* The same as far as it holds: for the writes in which json.dump can write
\* every pair of all_qa_pairs.
RewriteOfWritablePairsKeepsPrefix ==
    (ResumesValidOutput /\ fpc # "WRITING"
        /\ \A k \in DOMAIN all_qa_pairs : all_qa_pairs[k].json_ok)
        => (out_file.valid /\ IsPrefix(LoadedData(last_saved), out_file.recs))

\* the positions of all_qa_pairs whose record the output file does not have
Missing ==
    {k \in DOMAIN all_qa_pairs :
        IF k <= Len(LoadedData(out_file))
        THEN LoadedData(out_file)[k] # all_qa_pairs[k]
        ELSE TRUE}

\* C8: once the orchestrator has handled a job that returned, the output file
\* is, between two writes, valid and holds exactly all_qa_pairs; and at any
\* time the records of all_qa_pairs that the output file does not have come
\* from one chunk at most.
C8_PersistedEqualsMemory ==
    /\ ((\E c \in DOMAIN future_to_chunk : JobReturned(c)) /\ fpc # "WRITING")
          => (out_file.valid /\ out_file.recs = all_qa_pairs)
    /\ Cardinality({all_qa_pairs[k].chunk : k \in Missing}) <= 1

\* C9: a run in append mode over a valid output file of K records, in which
\* the job of each of the M chunks returned one pair, ends with a valid
\* output file of K+M records: the K records it had, then the M new ones,
\* each once.
C9_Resume ==
    (/\ fpc = "DONE"
     /\ ResumesValidOutput
     /\ \A c \in DOMAIN future_to_chunk :
           JobReturned(c) /\ Len(future_to_chunk[c].result.pairs) = 1)
    => /\ out_file.valid
       /\ Len(out_file.recs) = Len(out_before.recs) + n_chunks
       /\ SubSeq(out_file.recs, 1, Len(out_before.recs)) = out_before.recs
       /\ {out_file.recs[k] : k \in (Len(out_before.recs) + 1)..Len(out_file.recs)}
             = {future_to_chunk[c].result.pairs[1] : c \in DOMAIN future_to_chunk}

\* the place of x in the sequence s
Pos(s, x) == CHOOSE i \in DOMAIN s : s[i] = x

\* what the run began with in all_qa_pairs
LoadedAtStart == IF append /\ out_before.exists THEN LoadedData(out_before) ELSE <<>>

\* the results of the jobs that returned, among the first n chunks the loop
\* has taken, in the order in which it took them
RECURSIVE ResultsOfFirst(_)
ResultsOfFirst(n) ==
    IF n = 0 THEN <<>>
    ELSE LET r == future_to_chunk[as_completed_order[n]].result
         IN ResultsOfFirst(n - 1) \o (IF r.raised \/ r.none THEN <<>> ELSE r.pairs)

\* C18: the loop takes the chunks of a batch in the order in which their jobs
\* finished; and, between two writes, once a job that returned has been
\* handled, the output file holds exactly what the run began with and then
\* the results of the chunks taken so far, in that order.
C18_MergedInCompletionOrder ==
    /\ \A i, j \in 1..handled :
          i < j => Pos(completion_order, as_completed_order[i])
                       < Pos(completion_order, as_completed_order[j])
    /\ ((\E c \in DOMAIN future_to_chunk : JobReturned(c)) /\ fpc # "WRITING")
          => /\ out_file.valid
             /\ out_file.recs = LoadedAtStart \o ResultsOfFirst(handled)

\* The second half of C18 as far as it holds: for the pairs json.dump can write.
WritableResultsPersistedInOrder ==
    ((\E c \in DOMAIN future_to_chunk : JobReturned(c)) /\ fpc # "WRITING"
        /\ \A k \in DOMAIN all_qa_pairs : all_qa_pairs[k].json_ok)
        => /\ out_file.valid
           /\ out_file.recs = LoadedAtStart \o ResultsOfFirst(handled)

\* the chunks whose result is being written
Writing(futures) == {c \in DOMAIN futures : futures[c].st = "writing"}

\* C19: the output file has a single writer.  A step that changes the file is
\* a step of the orchestrator's loop, Collect or Dump; the step of a worker,
\* JobCompletes, leaves the file as it is; and a write begins only when no
\* write is in progress, so that at most one is in progress at any time.
C19_SingleWriter ==
    [][/\ out_file' # out_file =>
             \E c \in DOMAIN future_to_chunk : Collect(c) \/ Dump(c)
       /\ (\E c \in DOMAIN future_to_chunk : JobCompletes(c)) => out_file' = out_file
       /\ Writing(future_to_chunk') # Writing(future_to_chunk) =>
             (Writing(future_to_chunk) = {} \/ Writing(future_to_chunk') = {})
       /\ Cardinality(Writing(future_to_chunk')) <= 1]_vars

\* C19, its case: the output file is open for the result of one chunk while
\* the job of another chunk of the batch has finished and waits to be taken
C19_Witness ==
    /\ fpc = "WRITING"
    /\ \E c, d \in DOMAIN future_to_chunk :
          /\ future_to_chunk[c].st = "writing"
          /\ future_to_chunk[d].st = "done"
          /\ ~future_to_chunk[d].result.raised
    /\ out_file = Truncated

\* the pairs the jobs handled so far have parsed, kept or not; the pairs they
\* have returned; the chunks whose job raised
TotalParsed ==
    SumOver([c \in DOMAIN future_to_chunk |->
                IF JobReturned(c)
                THEN Len(future_to_chunk[c].result.pairs) + excluded[c] ELSE 0],
            DOMAIN future_to_chunk)

TotalRetained ==
    SumOver([c \in DOMAIN future_to_chunk |->
                IF JobReturned(c) THEN Len(future_to_chunk[c].result.pairs) ELSE 0],
            DOMAIN future_to_chunk)

FailedChunks == {c \in DOMAIN future_to_chunk : JobRaised(c)}

\* C22: at the end of a run the orchestrator reports the number of pairs
\* generated, which counts every parsed pair, also those the filter excluded;
\* the number retained after filtering, which is not greater; and the chunks
\* that failed.
C22_EndOfRunReport ==
    fpc = "DONE" =>
        /\ summary.printed
        /\ summary.generated = TotalParsed
        /\ summary.filtered = TotalRetained
        /\ summary.filtered <= summary.generated
        /\ {errors[k].chunk : k \in DOMAIN errors} = FailedChunks

\* C22, as far as it holds: the summary, when it is printed, gives the number
\* of pairs the jobs returned as the number generated, and a number retained
\* that is not greater
SummaryCountsReturnedPairs ==
    summary.printed =>
        /\ summary.generated = TotalRetained
        /\ summary.filtered <= summary.generated

\* C22 in a run of a verbose generator with a critique agent, in which no job
\* excluded a pair and json.dump could write every pair
ReportOfCleanVerboseRun ==
    (/\ fpc = "DONE"
     /\ verbose /\ critique_agent
     /\ \A c \in DOMAIN excluded : excluded[c] = 0
     /\ \A k \in DOMAIN all_qa_pairs : all_qa_pairs[k].json_ok) =>
        /\ summary.printed
        /\ summary.generated = TotalParsed
        /\ summary.filtered = TotalRetained
        /\ {errors[k].chunk : k \in DOMAIN errors} = FailedChunks

\* no job has been submitted
NoJobSubmitted ==
    \A c \in DOMAIN future_to_chunk : future_to_chunk[c].st = "unsubmitted"

\* C30: generate_from_file raises FileNotFoundError when the input file is not
\* there and ValueError when the input has no chunk column; in both cases no
\* job is submitted and the output file is as it was.
C30_InputRejected ==
    (fpc # "VALIDATE" /\ input_kind \in {"missing", "nocolumn"}) =>
        /\ fpc = "RAISED"
        /\ input_kind = "missing" => run_error = "FileNotFoundError"
        /\ input_kind = "nocolumn" => run_error = "ValueError"
        /\ NoJobSubmitted
        /\ out_file = out_before
        /\ all_qa_pairs = <<>>

\* C30, its case: the input has no chunk column, and there is an output file
\* with a record from an earlier run
C30_Witness ==
    /\ fpc = "RAISED"
    /\ input_kind = "nocolumn"
    /\ run_error = "ValueError"
    /\ out_file.exists /\ out_file.valid /\ Len(out_file.recs) = 1

\* the batch that row c of the input is in
BatchIndex(c) == (c - 1) \div batch_size

\* C32: chunks are processed in consecutive batches of at most batch_size: no
\* job of a batch is submitted before every job of the batches before it has
\* been collected, the jobs outstanding are jobs of the current batch and at
\* most batch_size of them, and at most num_workers jobs are running
C32_BatchesBoundOutstandingJobs ==
    /\ \A c, d \in DOMAIN future_to_chunk :
          (BatchIndex(c) < BatchIndex(d) /\ future_to_chunk[d].st # "unsubmitted")
              => future_to_chunk[c].st = "collected"
    /\ Outstanding \subseteq {c \in DOMAIN future_to_chunk :
                                 BatchIndex(c) * batch_size = batch_start}
    /\ Cardinality(Outstanding) <= batch_size
    /\ Cardinality(Running) <= num_workers

\* a second batch is outstanding in full after the first was collected, with
\* one job of it running and the other waiting for the only worker
C32_Witness ==
    /\ n_chunks > batch_size
    /\ batch_start = batch_size
    /\ Cardinality(Outstanding) = batch_size
    /\ batch_size > num_workers
    /\ Cardinality(Running) = num_workers
    /\ num_workers >= 1

\* how many elements of the sequence seq satisfy Test
CountIn(seq, Test(_)) == Cardinality({k \in DOMAIN seq : Test(seq[k])})

\* C33: in one run every input row produces exactly one job, and the run
\* returns only after every job has been collected exactly once: the pairs of
\* a job that returned are in all_qa_pairs once, the failure of a job that
\* raised is reported once; no chunk is skipped and none is merged twice.
C33_EveryJobCollectedOnce ==
    /\ \A c \in DOMAIN future_to_chunk :
          /\ CountIn(completion_order, LAMBDA x : x = c) <= 1
          /\ CountIn(as_completed_order, LAMBDA x : x = c) <= 1
          /\ CountIn(all_qa_pairs, LAMBDA p : p.chunk = c)
                <= Len(future_to_chunk[c].result.pairs)
          /\ CountIn(errors, LAMBDA e : e.chunk = c /\ e.cause = "job") <= 1
    /\ fpc = "DONE" =>
          /\ DOMAIN future_to_chunk = 1..n_chunks
          /\ handled = n_chunks
          /\ \A c \in 1..n_chunks :
                /\ future_to_chunk[c].st = "collected"
                /\ CountIn(completion_order, LAMBDA x : x = c) = 1
                /\ CountIn(as_completed_order, LAMBDA x : x = c) = 1
                /\ IF future_to_chunk[c].result.raised
                   THEN /\ CountIn(errors, LAMBDA e : e.chunk = c /\ e.cause = "job") = 1
                        /\ CountIn(all_qa_pairs, LAMBDA p : p.chunk = c) = 0
                   ELSE /\ CountIn(errors, LAMBDA e : e.chunk = c /\ e.cause = "job") = 0
                        /\ \A k \in DOMAIN future_to_chunk[c].result.pairs :
                              CountIn(all_qa_pairs,
                                      LAMBDA p : p = future_to_chunk[c].result.pairs[k]) = 1

\* a run of two rows in two batches has returned: one job raised, the other
\* returned a pair
C33_Witness ==
    /\ fpc = "DONE"
    /\ n_chunks = 2
    /\ batch_size = 1
    /\ future_to_chunk[1].result.raised
    /\ Len(future_to_chunk[2].result.pairs) = 1
    /\ Len(errors) = 1
    /\ Len(all_qa_pairs) = Len(LoadedData(out_before)) + 1

\* C34: with append false, when generate_from_file has returned, the output
\* file holds only records generated by this run and none of the records it
\* held before the run, also when no chunk of the run succeeded.
C34_OverwriteLeavesOnlyThisRun ==
    (fpc = "DONE" /\ ~append) =>
        \A k \in DOMAIN out_file.recs : out_file.recs[k].chunk \in 1..n_chunks

\* the records of chunk c in the output file f
RecordsOf(f, c) == CountIn(f.recs, LAMBDA p : p.chunk = c)

\* every job of the run returned one pair, which json.dump can write
EachChunkYieldsOnePair ==
    \A c \in DOMAIN future_to_chunk :
        /\ JobReturned(c)
        /\ Len(future_to_chunk[c].result.pairs) = 1
        /\ future_to_chunk[c].result.pairs[1].json_ok

\* C35: in append mode every chunk of the input is processed on every run,
\* whatever records the output already holds: a run that has returned has
\* run and collected one job for every row, and when each of its jobs yielded
\* one pair the valid output it found has one more record for every chunk, so
\* that a second run over the same input leaves two records for each chunk.
C35_RerunProcessesEveryChunkAgain ==
    (fpc = "DONE" /\ append) =>
        /\ \A c \in 1..n_chunks :
              /\ future_to_chunk[c].st = "collected"
              /\ CountIn(completion_order, LAMBDA x : x = c) = 1
        /\ (EachChunkYieldsOnePair /\ (out_before.exists => out_before.valid)) =>
              /\ out_file.valid \/ n_chunks = 0
              /\ \A c \in 1..n_chunks : RecordsOf(out_file, c) = RecordsOf(out_before, c) + 1
              /\ Len(out_file.recs) = Len(out_before.recs) + n_chunks

\* the second run over two rows has returned and the output holds two
\* records for each of them
C35_Witness ==
    /\ fpc = "DONE"
    /\ run = 2
    /\ n_chunks = 2
    /\ EachChunkYieldsOnePair
    /\ out_file.valid
    /\ \A c \in 1..n_chunks : RecordsOf(out_before, c) = 1 /\ RecordsOf(out_file, c) = 2

\* C36: generate_from_file returns normally for every outcome of the chunk
\* jobs, also when the run generates no pair while verbose reporting and a
\* critique agent are on: a run on a valid input never ends by raising.
C36_ReturnsForEveryJobOutcome ==
    (input_kind = "ok" /\ fpc \in {"DONE", "RAISED"}) =>
        /\ fpc = "DONE"
        /\ run_error = "none"

\* C37: whenever generate_qa is called with with_critique true, it raises
\* ValueError (criteria missing or empty) or returns pairs that each carry
\* critiques and aggregate_score; it never returns uncritiqued pairs.
C37_CritiqueRequestedIsCritiqued ==
    (svc_method = "generate_qa" /\ svc_with_critique /\ svc_pc = "RETURNED") =>
        \A k \in DOMAIN svc_result.pairs : svc_result.pairs[k].critiqued

\* C38: generate_and_evaluate_answer never raises because of the evaluator.
\* It calls the generation model once, and a call that raises is the only
\* way it raises; when the evaluator raises the result has the single
\* critique evaluation_error with rating 1 and the aggregate score 1; with no
\* evaluator it has no critiques and a null aggregate score.
C38_EvaluatorFailureContained ==
    svc_method = "generate_and_evaluate_answer" =>
        /\ svc_model_calls <= 1
        /\ svc_pc = "RAISED" <=> svc_response = "raises"
        /\ svc_pc = "RAISED" => svc_eval_calls = 0 /\ svc_model_calls = 1
        /\ svc_pc = "RETURNED" =>
              /\ svc_result.error = "none"
              /\ svc_model_calls = 1
              /\ svc_evaluation.raised =>
                    /\ svc_result.critiques = <<EvaluationErrorCritique>>
                    /\ svc_result.aggregate_score = ScoreOf(1)
              /\ ~svc_evaluator =>
                    /\ svc_result.critiques = <<>>
                    /\ svc_result.aggregate_score.null
                    /\ svc_eval_calls = 0

\* the evaluator raised and the call returned the evaluation_error critique
C38_Witness ==
    /\ svc_method = "generate_and_evaluate_answer"
    /\ svc_pc = "RETURNED"
    /\ svc_evaluator
    /\ svc_evaluation.raised
    /\ svc_result.critiques = <<EvaluationErrorCritique>>

\* C40: set_model_enabled with cache_only leaves every model's enabled flag
\* and the saved configuration as they were and records the change as
\* pending; commit_cached_changes applies every cached change to the models,
\* clears the cache and returns True, or returns False and changes nothing
\* when no change is pending; discard_cached_changes drops the cached changes
\* and changes no model.
C40_CachedChangesApplyAtCommit ==
    /\ has_pending_changes <=> cached_changes # EmptyMap
    /\ (last_call.op = "set_model_enabled" /\ last_call.cache_only) =>
          /\ models = before.models
          /\ saved_config = before.saved_config
          /\ has_pending_changes
          /\ cached_changes[last_call.model_id] = last_call.enabled
          /\ \A m \in DOMAIN before.cached_changes \ {last_call.model_id} :
                cached_changes[m] = before.cached_changes[m]
    /\ last_call.op = "commit_cached_changes" =>
          /\ last_call.ret \in {"True", "False"}
          /\ last_call.ret = "True" <=> before.cached_changes # EmptyMap
          /\ cached_changes = EmptyMap
          /\ DOMAIN models = DOMAIN before.models
          /\ \A m \in DOMAIN models :
                models[m] = IF m \in DOMAIN before.cached_changes
                            THEN before.cached_changes[m]
                            ELSE before.models[m]
          /\ last_call.ret = "False" =>
                models = before.models /\ saved_config = before.saved_config
    /\ last_call.op = "discard_cached_changes" =>
          /\ cached_changes = EmptyMap
          /\ models = before.models
          /\ saved_config = before.saved_config

\* two cached changes have been committed at once: both models changed
\* their flag at the commit, which returned True
C40_Witness ==
    /\ last_call.op = "commit_cached_changes"
    /\ last_call.ret = "True"
    /\ DOMAIN before.cached_changes = ModelIds
    /\ DOMAIN models = ModelIds
    /\ \A m \in ModelIds : models[m] # before.models[m]
    /\ cached_changes = EmptyMap

====
